---- MODULE Spec2Model ----
(***************************************************************************)
(* A model of snapfind: the bounded directory crawler (src/src/crawler.rs) *)
(* and the fixed-capacity search engine with its binary index file         *)
(* (src/src/search.rs, and the later revision src/src/snapfind/search.rs). *)
(*                                                                         *)
(* The limits of the program are kept by name and scaled down so that the  *)
(* state space is finite and small; every guard of the code is kept as     *)
(* written, against the scaled limit.                                      *)
(***************************************************************************)
EXTENDS Integers, Sequences, FiniteSets, TLC

(***************************************************************************)
(* Limits of src/src/types.rs (scaled).                                    *)
(***************************************************************************)
\* types.rs:6, 1_000 in the source: capacity of the queue and depth limit.
MAX_DEPTH == 3
\* types.rs:9, 1_000 in the source.
MAX_FILES == 3
\* types.rs:12, 10 MiB in the source.
MAX_FILE_SIZE == 2
\* types.rs:15, 255 in the source.
MAX_PATH_LENGTH == 4

(***************************************************************************)
(* Limits of src/src/search.rs (scaled).  In the source MAX_RESULTS equals *)
(* MAX_DOCUMENTS; here it is smaller, so that take(MAX_RESULTS) of         *)
(* search.rs:402 has something to cut.                                     *)
(***************************************************************************)
\* search.rs:13, 100 in the source.
MAX_RESULTS == 2
\* search.rs:16, 100 in the source.
MAX_DOCUMENTS == 3
\* search.rs:19, 1_000 in the source: as there, below MAX_PATH_BYTES.
MAX_CONTENT_LENGTH == 6
\* search.rs:22, 50 in the source: as there, below MAX_CONTENT_LENGTH.
MAX_TERM_LENGTH == 5
\* search.rs:25, 1024 in the source.
MAX_PATH_BYTES == 7
\* search.rs:34, 10 in the source.
MAX_PATTERNS == 2
\* search.rs:317, the capacity 10 of query_terms in the source.
MAX_QUERY_TERMS == 2
\* search.rs:28, b"SNAP".
MAGIC == <<83, 78, 65, 80>>
\* search.rs:31
VERSION == 1

(***************************************************************************)
(* Bounds of the model.                                                    *)
(***************************************************************************)
\* Entries of one directory listing.
MaxEntries == 3
\* Directories of the crawled tree, the root included.
MaxDirs == 6

VARIABLES
    \* ---- Crawler (crawler.rs:13-20)
    queue,          \* ArrayVec<(PathBuf, usize), MAX_DEPTH>: <<[id, depth]>>, top last
    file_count,     \* files accepted so far
    dir_count,      \* directories discovered so far
    \* ---- what the caller of the crawler has seen (main.rs:87-97)
    ret,            \* what the last process_next call returned
    before,         \* progress() taken right before the last process_next call
    aborted,        \* an earlier process_next call returned an error
    visited,        \* ids of the directories process_next has popped so far
    \* ---- SearchEngine (search.rs:97-101) and its index file
    documents,      \* Box<ArrayVec<Document, MAX_DOCUMENTS>>: <<[path, content]>>
    disk,           \* the index file: [exists, bytes]
    eret,           \* the last engine operation, its input and what it returned
    \* ---- TextDetector (text.rs:59-64) and its caller (main.rs:81, 104)
    detector,       \* [stats, sample_buf]: the detector every file goes through
    tret,           \* the last validate call, its input and what it returned
    \* ---- TrackingAllocator (alloc.rs:8-17) and the threads that call it
    allocator,      \* [initializing, allocated, peak]: the three atomics
    threads,        \* per thread: where it is in alloc or dealloc, and its locals
    high            \* the largest value allocator.allocated has had so far

crawlerVars == <<queue, file_count, dir_count, ret, before, aborted, visited>>

engineVars == <<documents, disk, eret>>

textVars == <<detector, tret>>

allocVars == <<allocator, threads, high>>

vars == <<crawlerVars, engineVars, textVars, allocVars>>

(***************************************************************************)
(* Sequence helpers.                                                       *)
(***************************************************************************)
\* Mutant: the bottom of a stack taken for its top.
Oldest(s) == s[1]

Last(s) == s[Len(s)]

Front(s) == SubSeq(s, 1, Len(s) - 1)

RECURSIVE SeqsUpTo(_, _)
\* All sequences over S of length at most n.
SeqsUpTo(S, n) ==
    IF n = 0 THEN {<<>>}
    ELSE LET shorter == SeqsUpTo(S, n - 1)
         IN  shorter \cup {Append(s, x) : s \in {t \in shorter : Len(t) = n - 1}, x \in S}

(***************************************************************************)
(* The filesystem, as process_next sees it: the entries fs::read_dir       *)
(* yields for the directory being visited.  The tree is a stable snapshot  *)
(* (spec 4.1), so the two assertions of crawler.rs:57-58 hold.  An entry   *)
(* is what the loop body reads of it:                                      *)
(*   io       where an I/O error strikes: "none", "entry" (crawler.rs:64), *)
(*            "file_type" (:70) or "metadata" (:84)                        *)
(*   path_len path.as_os_str().len()                                       *)
(*   is_dir   entry.file_type()?.is_dir()                                  *)
(*   size     entry.metadata()?.len()                                      *)
(***************************************************************************)
DirEntry(io, path_len, is_dir, size) ==
    [io |-> io, path_len |-> path_len, is_dir |-> is_dir, size |-> size]

\* Entries the loop body can get past.
PlainEntries ==
    { DirEntry("none", MAX_PATH_LENGTH, TRUE, 0),
      DirEntry("none", MAX_PATH_LENGTH, FALSE, MAX_FILE_SIZE) }

\* Entries at which the loop body returns an error whatever the crawler's state.
FailingEntries ==
    { DirEntry("entry", 1, FALSE, 0),
      DirEntry("none", MAX_PATH_LENGTH + 1, TRUE, 0),
      DirEntry("none", MAX_PATH_LENGTH + 1, FALSE, 0),
      DirEntry("file_type", 1, FALSE, 0),
      DirEntry("metadata", 1, FALSE, 0),
      DirEntry("none", 1, FALSE, MAX_FILE_SIZE + 1) }

\* A listing is given up to and including the first entry that fails on its
\* own: the loop never reads what follows it.  read_dir_ok is FALSE when
\* fs::read_dir itself fails (crawler.rs:63).
Listings ==
    LET plain == SeqsUpTo(PlainEntries, MaxEntries)
        all   == plain \cup {Append(s, e) : s \in {t \in plain : Len(t) < MaxEntries},
                                            e \in FailingEntries}
    IN  {[read_dir_ok |-> TRUE, entries |-> s] : s \in all}
        \cup {[read_dir_ok |-> FALSE, entries |-> <<>>]}

NumDirs(listing) ==
    Cardinality({i \in 1..Len(listing.entries) : listing.entries[i].is_dir})

(***************************************************************************)
(* Crawler::validate_path (crawler.rs:100-107).                            *)
(***************************************************************************)
validate_path(path_len) == IF path_len > MAX_PATH_LENGTH THEN "PathTooLong" ELSE "Ok"

(***************************************************************************)
(* ArrayVec::try_push on the queue (crawler.rs:76): full at MAX_DEPTH.     *)
(***************************************************************************)
queue_is_full(q) == Len(q) >= MAX_DEPTH

\* Mutant: the directory is read from the top of the queue and left on it.
pop_peek(q) == q

\* Mutant: the pop drops the pending directory under the top as well.
pop_two(q) == IF Len(q) >= 2 THEN SubSeq(q, 1, Len(q) - 2) ELSE <<>>

\* ArrayVec::pop (crawler.rs:52): what is left of the queue.
pop(q) == Front(q)

(***************************************************************************)
(* The limit checks of the loop body.                                      *)
(***************************************************************************)
\* Mutant: the depth check off by one.
depth_exceeded_off_by_one(new_depth) == new_depth > MAX_DEPTH

\* crawler.rs:73
depth_exceeded(new_depth) == new_depth >= MAX_DEPTH

\* Mutant: the file count check off by one.
file_count_exceeded_off_by_one(count) == count > MAX_FILES

\* crawler.rs:80
file_count_exceeded(count) == count >= MAX_FILES

\* Mutant: a file of exactly MAX_FILE_SIZE bytes is refused.
file_size_exceeded_at_limit(size) == size >= MAX_FILE_SIZE

\* crawler.rs:85
file_size_exceeded(size) == size > MAX_FILE_SIZE

(***************************************************************************)
(* One turn of the loop body (crawler.rs:64-90) on entry e of a directory  *)
(* at depth current_depth.  st is the crawler with the batch being built:  *)
(*   queue, file_count, dir_count, files, and err ("none" while the loop   *)
(*   runs, else the error returned), and, for an error, what raised it:    *)
(*   at ("depth" crawler.rs:74, "queue" :76, "count" :81, "size" :86, ...),*)
(*   the depth the entry would have had, and the entry itself.  nfiles     *)
(*   counts the file entries the loop has met.                             *)
(***************************************************************************)
NoEntry == DirEntry("none", 0, FALSE, 0)

Fail(st, err, at, new_depth, e) ==
    [st EXCEPT !.err = err, !.at = at, !.new_depth = new_depth, !.entry = e]

visit_entry(st, e, current_depth) ==
    IF e.io = "entry" THEN Fail(st, "Io", "entry", 0, e)
    ELSE IF validate_path(e.path_len) # "Ok" THEN Fail(st, "PathTooLong", "path", 0, e)
    ELSE IF e.io = "file_type" THEN Fail(st, "Io", "file_type", 0, e)
    ELSE IF e.is_dir THEN
        LET new_depth == current_depth + 1
        IN  IF depth_exceeded(new_depth)
                THEN Fail(st, "DepthExceeded", "depth", new_depth, e)
            ELSE IF queue_is_full(st.queue)
                THEN Fail(st, "DepthExceeded", "queue", new_depth, e)
            ELSE [st EXCEPT
                    !.queue = Append(@, [id |-> st.dir_count + 1, depth |-> new_depth]),
                    !.dir_count = @ + 1]
    ELSE IF file_count_exceeded(st.file_count) THEN Fail(st, "FileCountExceeded", "count", 0, e)
    ELSE IF e.io = "metadata" THEN Fail(st, "Io", "metadata", 0, e)
    ELSE IF file_size_exceeded(e.size) THEN Fail(st, "FileSizeExceeded", "size", 0, e)
    ELSE IF Len(st.files) >= MAX_FILES THEN Fail(st, "FileCountExceeded", "files", 0, e)
    ELSE [st EXCEPT !.files = Append(@, e), !.file_count = @ + 1]

RECURSIVE visit_entries(_, _, _, _)
\* The for loop of crawler.rs:63-91: it stops at the first error.
visit_entries(st, listing, i, current_depth) ==
    IF i > Len(listing) \/ st.err # "none" THEN st
    ELSE visit_entries(visit_entry(st, listing[i], current_depth), listing, i + 1,
                       current_depth)

(***************************************************************************)
(* Crawler::progress (crawler.rs:45-48).                                   *)
(***************************************************************************)
progress == <<file_count, MAX_FILES, dir_count>>

(***************************************************************************)
(* The state of a new TextDetector (text.rs:93-104, 143-147).              *)
(***************************************************************************)
\* text.rs:4, 512 in the source.
TEXT_SAMPLE_SIZE == 16

\* TextStats::new
TextStats_new ==
    [null_bytes |-> 0, control_chars |-> 0, utf8_errors |-> 0, line_breaks |-> 0,
     ascii_ratio |-> 0]

\* TextDetector::new: zeroed statistics and a zeroed sample buffer.
TextDetector_new ==
    [stats |-> TextStats_new, sample_buf |-> [i \in 1..TEXT_SAMPLE_SIZE |-> 0]]

(***************************************************************************)
(* The state of a new TrackingAllocator (alloc.rs:21-28) and of the        *)
(* threads that allocate through it.                                       *)
(***************************************************************************)
\* The number of threads, and of alloc calls a thread makes.
NumThreads == 3

MaxAllocs == 1

Threads == 1..NumThreads

\* TrackingAllocator::new
TrackingAllocator_new == [initializing |-> TRUE, allocated |-> 0, peak |-> 0]

\* A thread outside alloc and dealloc that holds no memory: pc is where it
\* is, size the layout's size, new_size and peak the locals of alloc, allocs
\* the alloc calls it has made.
ThreadStart == [pc |-> "idle", size |-> 0, new_size |-> 0, peak |-> 0, allocs |-> 0]

(***************************************************************************)
(* Crawler::new (crawler.rs:24-36), on a root path within MAX_PATH_LENGTH,  *)
(***************************************************************************)
\* SearchEngine::new (search.rs:111-113) and TextDetector::new (main.rs:81);
\* no index file has been written.
Init ==
    /\ queue = <<[id |-> 1, depth |-> 0]>>
    /\ file_count = 0
    /\ dir_count = 1
    /\ ret = [kind |-> "New"]
    /\ before = <<0, MAX_FILES, 1>>
    /\ aborted = FALSE
    /\ visited = {}
    /\ documents = <<>>
    /\ disk = [exists |-> FALSE, bytes |-> <<>>]
    /\ eret = [op |-> "new"]
    /\ detector = TextDetector_new
    /\ tret = [op |-> "new"]
    /\ allocator = TrackingAllocator_new
    /\ threads = [t \in Threads |-> ThreadStart]
    /\ high = 0

(***************************************************************************)
(* Crawler::process_next (crawler.rs:51-97).                               *)
(***************************************************************************)
\* crawler.rs:52-54: nothing is pending.
ProcessNextNone ==
    /\ queue = <<>>
    /\ ret' = [kind |-> "None"]
    /\ before' = progress
    /\ aborted' = (aborted \/ ret.kind = "Err")
    /\ UNCHANGED <<queue, file_count, dir_count, visited>>
    /\ UNCHANGED <<engineVars, textVars, allocVars>>

\* crawler.rs:52-97: the directory on top of the queue is popped and listed.
ProcessNextDir ==
    /\ queue # <<>>
    /\ \E listing \in Listings :
        LET top == Last(queue)
            st0 == [queue |-> pop(queue), file_count |-> file_count,
                    dir_count |-> dir_count, files |-> <<>>,
                    err |-> "none", at |-> "none", new_depth |-> 0, entry |-> NoEntry]
            st  == IF listing.read_dir_ok
                       THEN visit_entries(st0, listing.entries, 1, top.depth)
                       ELSE Fail(st0, "Io", "read_dir", 0, NoEntry)
        IN  /\ dir_count + NumDirs(listing) <= MaxDirs
            /\ queue' = st.queue
            /\ file_count' = st.file_count
            /\ dir_count' = st.dir_count
            /\ ret' = IF st.err = "none"
                          THEN [kind |-> "Some", files |-> st.files, dir |-> top,
                                nfiles |-> Len(listing.entries) - NumDirs(listing)]
                          ELSE [kind |-> "Err", err |-> st.err, at |-> st.at,
                                new_depth |-> st.new_depth, entry |-> st.entry,
                                dir |-> top, pending |-> Len(st.queue)]
            /\ before' = progress
            /\ aborted' = (aborted \/ ret.kind = "Err")
            /\ visited' = visited \cup {top.id}
            /\ UNCHANGED <<engineVars, textVars, allocVars>>

NextCrawler == ProcessNextNone \/ ProcessNextDir

SpecCrawler == Init /\ [][NextCrawler]_vars

\* The caller's loop (main.rs:90, `while let Some(files) =
\* crawler.process_next()?`) goes on calling until it gets None or an error.
SpecCrawlerFair == SpecCrawler /\ WF_vars(NextCrawler)

(***************************************************************************)
(* Bytes and UTF-8.  A path is the byte string of its OsStr, a content the *)
(* bytes of its &str.                                                      *)
(***************************************************************************)
IsCont(b) == b >= 128 /\ b <= 191

\* The replacement character U+FFFD in UTF-8.
REPLACEMENT == <<239, 191, 189>>

\* The number of bytes at s[i] that form one valid UTF-8 sequence (> 0), or
\* minus the length of the maximal invalid prefix there, as the validation
\* of core::str (std's run_utf8_validation, Utf8Chunks) finds them.
utf8_step(s, i) ==
    LET n    == Len(s)
        b    == s[i]
        at(k) == IF i + k <= n THEN s[i + k] ELSE 0
        in(k, lo, hi) == i + k <= n /\ at(k) >= lo /\ at(k) <= hi
    IN  IF b < 128 THEN 1
        ELSE IF b >= 194 /\ b <= 223 THEN (IF in(1, 128, 191) THEN 2 ELSE -1)
        ELSE IF b >= 224 /\ b <= 239 THEN
            LET lo == IF b = 224 THEN 160 ELSE 128
                hi == IF b = 237 THEN 159 ELSE 191
            IN  IF ~in(1, lo, hi) THEN -1
                ELSE IF ~in(2, 128, 191) THEN -2
                ELSE 3
        ELSE IF b >= 240 /\ b <= 244 THEN
            LET lo == IF b = 240 THEN 144 ELSE 128
                hi == IF b = 244 THEN 143 ELSE 191
            IN  IF ~in(1, lo, hi) THEN -1
                ELSE IF ~in(2, 128, 191) THEN -2
                ELSE IF ~in(3, 128, 191) THEN -3
                ELSE 4
        ELSE -1

RECURSIVE from_utf8_lossy_from(_, _)
from_utf8_lossy_from(s, i) ==
    IF i > Len(s) THEN <<>>
    ELSE LET k == utf8_step(s, i)
         IN  IF k > 0
                 THEN SubSeq(s, i, i + k - 1) \o from_utf8_lossy_from(s, i + k)
                 ELSE REPLACEMENT \o from_utf8_lossy_from(s, i - k)

\* String::from_utf8_lossy (search.rs:188) and Path::to_string_lossy
\* (search.rs:222, 337): each maximal invalid sequence becomes U+FFFD.
from_utf8_lossy(s) == from_utf8_lossy_from(s, 1)

RECURSIVE is_utf8_from(_, _)
is_utf8_from(s, i) ==
    IF i > Len(s) THEN TRUE
    ELSE LET k == utf8_step(s, i)
         IN  k > 0 /\ is_utf8_from(s, i + k)

\* Path::to_str (search.rs:90) is Some exactly for valid UTF-8.
is_utf8(s) == is_utf8_from(s, 1)

(***************************************************************************)
(* Inputs of the engine: the paths and contents handed to add_document.    *)
(***************************************************************************)
\* "a.txt", "b.md", "d/a.txt", a path that is not UTF-8 (FF 'a'), and a path
\* of MAX_PATH_BYTES + 1 bytes ("aaaaaaaa").
PathInputs ==
    { <<97, 46, 116, 120, 116>>,
      <<98, 46, 109, 100>>,
      <<100, 47, 97, 46, 116, 120, 116>>,
      <<255, 97>>,
      <<97, 97, 97, 97, 97, 97, 97, 97>> }

\* "a", "b.md a" (MAX_CONTENT_LENGTH bytes) and "b.md a." (one byte more).
ContentInputs ==
    { <<97>>,
      <<98, 46, 109, 100, 32, 97>>,
      <<98, 46, 109, 100, 32, 97, 46>> }

(***************************************************************************)
(* SearchEngine::add_document (search.rs:254-263).  An error is named by   *)
(* the message of its Error::search (search.rs:257, 262), which the later  *)
(* revision keeps and numbers (snapfind/search.rs:21-22).                  *)
(***************************************************************************)
\* search.rs:255-258: try_push on ArrayVec<u8, MAX_CONTENT_LENGTH> fails.
content_too_large(content) == Len(content) > MAX_CONTENT_LENGTH

\* Mutant: the store takes one document more than MAX_DOCUMENTS.
documents_full_off_by_one(docs) == Len(docs) > MAX_DOCUMENTS

\* search.rs:260-262: try_push on ArrayVec<Document, MAX_DOCUMENTS> fails.
documents_full(docs) == Len(docs) >= MAX_DOCUMENTS

\* Mutant: the store is checked before the content.
add_document_store_first(docs, path, content) ==
    IF documents_full(docs) THEN [err |-> "Too many documents", documents |-> docs]
    ELSE IF content_too_large(content) THEN [err |-> "Content too large", documents |-> docs]
    ELSE [err |-> "none", documents |-> Append(docs, [path |-> path, content |-> content])]

add_document(docs, path, content) ==
    IF content_too_large(content) THEN [err |-> "Content too large", documents |-> docs]
    ELSE IF documents_full(docs) THEN [err |-> "Too many documents", documents |-> docs]
    ELSE [err |-> "none", documents |-> Append(docs, [path |-> path, content |-> content])]

(***************************************************************************)
(* The index file (search.rs:205-246): little-endian fields.               *)
(***************************************************************************)
\* u16::to_le_bytes
u16_le(n) == <<n % 256, (n \div 256) % 256>>

\* u32::to_le_bytes
u32_le(n) == <<n % 256, (n \div 256) % 256, (n \div 65536) % 256, (n \div 16777216) % 256>>

\* Mutant: the length is read big-endian.
u16_from_be(b) == 256 * b[1] + b[2]

\* u16::from_le_bytes
u16_from_le(b) == b[1] + 256 * b[2]

\* u32::from_le_bytes
u32_from_le(b) == b[1] + 256 * b[2] + 65536 * b[3] + 16777216 * b[4]

\* Mutant: the path is written as its raw bytes.
save_path_bytes_raw(path) == path

\* search.rs:222-223
save_path_bytes(path) == from_utf8_lossy(path)

\* Mutant: save writes a path of any length.
save_path_never_too_long(path_bytes) == FALSE

\* search.rs:224
save_path_too_long(path_bytes) == Len(path_bytes) > MAX_PATH_BYTES

RECURSIVE save_documents(_, _, _)
\* search.rs:221-243: the records, written one field at a time; an error
\* leaves what was written before it.
save_documents(docs, i, written) ==
    IF i > Len(docs) THEN [err |-> "none", bytes |-> written]
    ELSE LET path_bytes == save_path_bytes(docs[i].path)
             content    == docs[i].content
         IN  IF save_path_too_long(path_bytes)
                 THEN [err |-> "Path too long", bytes |-> written]
             ELSE IF Len(path_bytes) > 65535
                 THEN [err |-> "Path too long for index format", bytes |-> written]
             ELSE IF Len(content) > 65535
                 THEN [err |-> "Content too large for index format",
                       bytes |-> written \o u16_le(Len(path_bytes)) \o path_bytes]
             ELSE save_documents(docs, i + 1,
                     written \o u16_le(Len(path_bytes)) \o path_bytes
                             \o u16_le(Len(content)) \o content)

\* SearchEngine::save (search.rs:205-246), the file created (search.rs:206)
\* and every write succeeding: the error returned and the bytes of the file.
save(docs) == save_documents(docs, 1, MAGIC \o <<VERSION>> \o u32_le(Len(docs)))

(***************************************************************************)
(* SearchEngine::load (search.rs:122-197) on the bytes of the file.        *)
(***************************************************************************)
\* read_exact of n bytes at offset pos (from 1) succeeds.
can_read(bytes, pos, n) == pos + n - 1 <= Len(bytes)

\* search.rs:137
load_version_ok(v) == v = VERSION

\* search.rs:130
load_magic_ok(m) == m = MAGIC

\* search.rs:145
load_too_many_documents(ndocs) == ndocs > MAX_DOCUMENTS

\* search.rs:158
load_path_too_long(path_len) == path_len > MAX_PATH_BYTES

\* search.rs:175
load_content_too_large(content_len) == content_len > MAX_CONTENT_LENGTH

LoadErr(msg) == [ok |-> FALSE, err |-> msg, documents |-> <<>>]

\* Mutant: a short read ends the load with the records read so far.
load_short_read_partial(msg, docs) == [ok |-> TRUE, err |-> "none", documents |-> docs]

\* search.rs:155-156, 165-166, 172-173, 182-183: a short read inside the
\* records returns the error; the engine being built is dropped.
load_short_read(msg, docs) == LoadErr(msg)

RECURSIVE load_documents(_, _, _, _)
\* search.rs:152-194: record by record, from offset pos.
load_documents(bytes, pos, left, docs) ==
    IF left = 0 THEN [ok |-> TRUE, err |-> "none", documents |-> docs]
    ELSE IF ~can_read(bytes, pos, 2) THEN load_short_read("Failed to read path length", docs)
    ELSE LET path_len == u16_from_le(SubSeq(bytes, pos, pos + 1))
         IN  IF load_path_too_long(path_len) THEN LoadErr("Path too long")
             ELSE IF ~can_read(bytes, pos + 2, path_len)
                 THEN load_short_read("Failed to read path", docs)
             ELSE IF path_len > MAX_PATH_BYTES THEN LoadErr("Path too long")
             ELSE IF ~can_read(bytes, pos + 2 + path_len, 2)
                 THEN load_short_read("Failed to read content length", docs)
             ELSE LET cpos        == pos + 2 + path_len
                      content_len == u16_from_le(SubSeq(bytes, cpos, cpos + 1))
                  IN  IF load_content_too_large(content_len) THEN LoadErr("Content too large")
                      ELSE IF ~can_read(bytes, cpos + 2, content_len)
                          THEN load_short_read("Failed to read content", docs)
                      ELSE IF content_len > MAX_CONTENT_LENGTH
                          THEN LoadErr("Content too large")
                      ELSE IF Len(docs) >= MAX_DOCUMENTS THEN LoadErr("Too many documents")
                      ELSE load_documents(bytes, cpos + 2 + content_len, left - 1,
                              Append(docs,
                                  [path |-> from_utf8_lossy(
                                                SubSeq(bytes, pos + 2, pos + 1 + path_len)),
                                   content |-> SubSeq(bytes, cpos + 2,
                                                      cpos + 1 + content_len)]))

load(file) ==
    IF ~file.exists THEN LoadErr("Failed to open index")
    ELSE LET bytes == file.bytes
         IN  IF ~can_read(bytes, 1, 4) THEN LoadErr("Failed to read magic")
             ELSE IF ~load_magic_ok(SubSeq(bytes, 1, 4)) THEN LoadErr("Invalid index file format")
             ELSE IF ~can_read(bytes, 5, 1) THEN LoadErr("Failed to read version")
             ELSE IF ~load_version_ok(bytes[5]) THEN LoadErr("Unsupported index version")
             ELSE IF ~can_read(bytes, 6, 4) THEN LoadErr("Failed to read document count")
             ELSE LET ndocs == u32_from_le(SubSeq(bytes, 6, 9))
                  IN  IF load_too_many_documents(ndocs)
                          THEN LoadErr("Too many documents in index")
                          ELSE load_documents(bytes, 10, ndocs, <<>>)

(***************************************************************************)
(* The engine's operations as actions.  eret holds the operation, its      *)
(* input, the documents before it and what it returned.                    *)
(***************************************************************************)
\* A panic ends the process.
Alive == ~(eret.op = "search" /\ eret.res.outcome = "panic")

\* engine.add_document(path, content), while no index has been written.
AddDocument ==
    /\ ~disk.exists
    /\ eret.op \in {"new", "add_document", "search"}
    /\ Alive
    /\ \E path \in PathInputs, content \in ContentInputs :
        LET r == add_document(documents, path, content)
        IN  /\ documents' = r.documents
            /\ eret' = [op |-> "add_document", path |-> path, content |-> content,
                        was |-> documents, err |-> r.err]
    /\ UNCHANGED disk
    /\ UNCHANGED <<crawlerVars, allocVars, textVars>>

\* engine.save(index_path): the file is created and written up to the error.
Save ==
    /\ ~disk.exists
    /\ eret.op \in {"new", "add_document"}
    /\ LET r == save(documents)
       IN  /\ disk' = [exists |-> TRUE, bytes |-> r.bytes]
           /\ eret' = [op |-> "save", err |-> r.err]
    /\ UNCHANGED documents
    /\ UNCHANGED <<crawlerVars, allocVars, textVars>>

(***************************************************************************)
(* What may have happened to the index file between save and load: nothing,*)
(* a truncation to pos bytes, or the byte at pos overwritten with value.   *)
(***************************************************************************)
TamperValues == {0, 1, MAX_PATH_BYTES + 1}

Tampers(bytes) ==
    {[kind |-> "none", pos |-> 0, value |-> 0]}
    \cup {[kind |-> "truncate", pos |-> n, value |-> 0] : n \in 0..(Len(bytes) - 1)}
    \cup UNION {{[kind |-> "set", pos |-> i, value |-> v] :
                    v \in TamperValues \ {bytes[i]}} : i \in 1..Len(bytes)}

ApplyTamper(bytes, t) ==
    IF t.kind = "truncate" THEN SubSeq(bytes, 1, t.pos)
    ELSE IF t.kind = "set" THEN [bytes EXCEPT ![t.pos] = t.value]
    ELSE bytes

\* SearchEngine::load(index_path), right after engine creation (no file yet)
\* or after a save.
Load ==
    /\ eret.op \in {"new", "save"}
    /\ \E t \in Tampers(disk.bytes) :
        eret' = [op |-> "load", tamper |-> t,
                 after |-> IF eret.op = "save" THEN eret.err ELSE "no save",
                 res |-> load([exists |-> disk.exists,
                               bytes |-> ApplyTamper(disk.bytes, t)])]
    /\ UNCHANGED <<documents, disk>>
    /\ UNCHANGED <<crawlerVars, allocVars, textVars>>

\* loaded.save(second_path) on the engine load returned: the second file.
SaveLoaded ==
    /\ eret.op = "load"
    /\ eret.res.ok
    /\ LET r == save(eret.res.documents)
       IN  eret' = [op |-> "save_loaded", tamper |-> eret.tamper, after |-> eret.after,
                    loaded |-> eret.res.documents, err |-> r.err, bytes |-> r.bytes]
    /\ UNCHANGED <<documents, disk>>
    /\ UNCHANGED <<crawlerVars, allocVars, textVars>>

NextIndex == AddDocument \/ Save \/ Load \/ SaveLoaded

SpecIndex == Init /\ [][NextIndex]_vars

(***************************************************************************)
(* Strings.  A &str is the sequence of its chars (code points); its bytes  *)
(* are their UTF-8 encoding.                                               *)
(***************************************************************************)
\* char::is_ascii
is_ascii(c) == c < 128

\* char::is_whitespace: the code points with the property White_Space.
is_whitespace(c) ==
    \/ c \in {9, 10, 11, 12, 13, 32, 133, 160, 5760, 8232, 8233, 8239, 8287, 12288}
    \/ c \in 8192..8202

\* char::len_utf8
len_utf8(c) == IF c < 128 THEN 1 ELSE IF c < 2048 THEN 2 ELSE IF c < 65536 THEN 3 ELSE 4

\* char::encode_utf8
encode_utf8(c) ==
    IF c < 128 THEN <<c>>
    ELSE IF c < 2048 THEN <<192 + (c \div 64), 128 + (c % 64)>>
    ELSE IF c < 65536
        THEN <<224 + (c \div 4096), 128 + ((c \div 64) % 64), 128 + (c % 64)>>
    ELSE <<240 + (c \div 262144), 128 + ((c \div 4096) % 64),
           128 + ((c \div 64) % 64), 128 + (c % 64)>>

RECURSIVE as_bytes(_)
\* str::as_bytes
as_bytes(s) == IF s = <<>> THEN <<>> ELSE encode_utf8(Head(s)) \o as_bytes(Tail(s))

\* str::len, in bytes.
str_len(s) == Len(as_bytes(s))

\* str::contains(char)
contains(s, c) == \E i \in 1..Len(s) : s[i] = c

RECURSIVE split_whitespace_from(_, _, _)
split_whitespace_from(s, i, word) ==
    IF i > Len(s) THEN (IF word = <<>> THEN <<>> ELSE <<word>>)
    ELSE IF is_whitespace(s[i])
        THEN (IF word = <<>> THEN <<>> ELSE <<word>>) \o split_whitespace_from(s, i + 1, <<>>)
    ELSE split_whitespace_from(s, i + 1, Append(word, s[i]))

\* str::split_whitespace: the maximal runs of chars that are not whitespace.
split_whitespace(s) == split_whitespace_from(s, 1, <<>>)

\* u8::to_ascii_lowercase
to_ascii_lowercase(b) == IF b >= 65 /\ b <= 90 THEN b + 32 ELSE b

\* u8::is_ascii_alphanumeric
is_ascii_alphanumeric(b) ==
    \/ b >= 48 /\ b <= 57
    \/ b >= 65 /\ b <= 90
    \/ b >= 97 /\ b <= 122

(***************************************************************************)
(* validate_query (search.rs:416-433).                                     *)
(***************************************************************************)
\* Mutant: only ASCII chars pass.
valid_char_ascii_only(c) == is_ascii(c)

\* search.rs:428: |c| c.is_ascii() || c.is_whitespace()
valid_char(c) == is_ascii(c) \/ is_whitespace(c)

validate_query(query) ==
    IF query = <<>> THEN "Query must not be empty"
    ELSE IF str_len(query) > MAX_TERM_LENGTH THEN "Query too long"
    ELSE IF contains(query, 0) \/ ~(\A i \in 1..Len(query) : valid_char(query[i]))
        THEN "Query contains invalid characters"
    ELSE "none"

(***************************************************************************)
(* SearchEngine::term_matches (search.rs:266-312), on bytes.               *)
(***************************************************************************)
\* Mutant: the term buffer takes any term.
term_lower_never_overflows(term) == FALSE

\* search.rs:272-277: try_push on ArrayVec<u8, MAX_TERM_LENGTH> fails.
term_lower_overflows(term) == Len(term) > MAX_TERM_LENGTH

\* search.rs:280-285: try_push on ArrayVec<u8, MAX_CONTENT_LENGTH> fails.
content_lower_overflows(content) == Len(content) > MAX_CONTENT_LENGTH

term_matches(term, content) ==
    IF Len(term) = 0 \/ Len(content) = 0 \/ Len(term) > Len(content) THEN FALSE
    ELSE IF term_lower_overflows(term) THEN FALSE
    ELSE IF content_lower_overflows(content) THEN FALSE
    ELSE LET term_lower    == [k \in 1..Len(term) |-> to_ascii_lowercase(term[k])]
             content_lower == [k \in 1..Len(content) |-> to_ascii_lowercase(content[k])]
             n             == Len(term_lower)
         IN  \E i \in 0..(Len(content_lower) - n) :
                LET is_start == i = 0 \/ ~is_ascii_alphanumeric(content_lower[i])
                    is_end   == \/ i + n = Len(content_lower)
                                \/ ~is_ascii_alphanumeric(content_lower[i + n + 1])
                IN  /\ is_start
                    /\ is_end
                    /\ \A k \in 1..n : term_lower[k] = content_lower[i + k]

(***************************************************************************)
(* f32.  A finite f32 that is not negative is [m, e], of value m * 2^e:    *)
(* zero is [0, 0], any other value has 2^23 <= m < 2^24.  Every operation  *)
(* rounds to nearest, ties to even, as IEEE 754 does.                      *)
(***************************************************************************)
RECURSIVE Pow2(_)
Pow2(k) == IF k = 0 THEN 1 ELSE 2 * Pow2(k - 1)

F32(m, e) == [m |-> m, e |-> e]

RECURSIVE f32_grow(_, _)
\* Exact: the mantissa shifted up to 24 bits.
f32_grow(m, e) == IF m >= 8388608 THEN F32(m, e) ELSE f32_grow(2 * m, e - 1)

RECURSIVE f32_excess_bits(_)
\* The number of bits m has beyond 24.
f32_excess_bits(m) == IF m < 16777216 THEN 0 ELSE 1 + f32_excess_bits(m \div 2)

\* The f32 nearest to m * 2^e, plus a nonzero amount below the last bit of m
\* when sticky.
f32_round(m, e, sticky) ==
    IF m = 0 THEN F32(0, 0)
    ELSE IF m < 16777216 THEN f32_grow(m, e)
    ELSE LET k    == f32_excess_bits(m)
             q    == m \div Pow2(k)
             r    == m % Pow2(k)
             half == Pow2(k - 1)
             up   == r > half \/ (r = half /\ (sticky \/ q % 2 = 1))
             q1   == IF up THEN q + 1 ELSE q
         IN  IF q1 = 16777216 THEN F32(8388608, e + k + 1) ELSE F32(q1, e + k)

\* a + b
f32_add(a, b) ==
    IF a.m = 0 THEN b
    ELSE IF b.m = 0 THEN a
    ELSE LET e == IF a.e < b.e THEN a.e ELSE b.e
         IN  f32_round(a.m * Pow2(a.e - e) + b.m * Pow2(b.e - e), e, FALSE)

\* a * (k * 2^e), for a small integer k.
f32_mul(a, k, e) == f32_round(a.m * k, a.e + e, FALSE)

\* a / n, for a small integer n > 0.
f32_div(a, n) == f32_round((a.m * 64) \div n, a.e - 6, (a.m * 64) % n # 0)

\* a < b (partial_cmp of search.rs:399).
score_lt(a, b) ==
    IF b.m = 0 THEN FALSE
    ELSE IF a.m = 0 THEN TRUE
    ELSE a.e < b.e \/ (a.e = b.e /\ a.m < b.m)

\* 0.0
score_zero == F32(0, 0)

\* 100.0
score_hundred == F32(13107200, -17)

\* Mutant: a path match weighs what a content match does.
path_weight_of_content == F32(13421773, -25)

\* 0.6_f32 (search.rs:338)
path_weight == F32(10066330, -24)

\* 0.4_f32 (search.rs:344)
content_weight == F32(13421773, -25)

\* f32::min(100.0)
min_100(a) == IF score_lt(score_hundred, a) THEN score_hundred ELSE a

\* score * 1.5
times_1_5(a) == f32_mul(a, 3, -1)

\* The first cap elements: try_push on a full ArrayVec fails and the loop
\* of search.rs:321-325 breaks.
take(s, cap) == SubSeq(s, 1, IF Len(s) < cap THEN Len(s) ELSE cap)

\* The number of i with P[i].
Count(P) == Cardinality({i \in DOMAIN P : P[i]})

(***************************************************************************)
(* SearchEngine::calculate_score (search.rs:315-359).                      *)
(***************************************************************************)
calculate_score(query, doc) ==
    LET query_terms == take(split_whitespace(query), MAX_QUERY_TERMS)
        term_count  == Len(query_terms)
        path_bytes  == from_utf8_lossy(doc.path)
        in_path(t)    == term_matches(as_bytes(query_terms[t]), path_bytes)
        in_content(t) == term_matches(as_bytes(query_terms[t]), doc.content)
        \* search.rs:334-346
        term_score(t) ==
            f32_add(IF in_path(t) THEN f32_add(score_zero, path_weight) ELSE score_zero,
                    IF in_content(t) THEN content_weight ELSE score_zero)
        matches_found == Count([t \in 1..term_count |-> in_path(t)])
                            + Count([t \in 1..term_count |-> in_content(t)])
        \* search.rs:333, 348: score after the first t terms.
        score[t \in 0..term_count] ==
            IF t = 0 THEN score_zero ELSE f32_add(score[t - 1], term_score(t))
    IN  IF term_count = 0 THEN score_zero
        ELSE IF matches_found = 0 THEN score_zero
        \* (score / term_count * 100.0).min(100.0)
        ELSE min_100(f32_mul(f32_div(score[term_count], term_count), 25, 2))

(***************************************************************************)
(* Glob patterns (globset), for patterns made of literal chars and '*':    *)
(* the whole path must match, ASCII case folded (case_insensitive(true));  *)
(* with literal_separator a '*' does not match '/'.                        *)
(***************************************************************************)
RECURSIVE glob_is_match(_, _, _, _, _)
glob_is_match(glob, i, s, j, literal_separator) ==
    IF i > Len(glob) THEN j > Len(s)
    ELSE IF glob[i] = 42
        THEN \/ glob_is_match(glob, i + 1, s, j, literal_separator)
             \/ /\ j <= Len(s)
                /\ ~(literal_separator /\ s[j] = 47)
                /\ glob_is_match(glob, i, s, j + 1, literal_separator)
    ELSE /\ j <= Len(s)
         /\ to_ascii_lowercase(glob[i]) = to_ascii_lowercase(s[j])
         /\ glob_is_match(glob, i + 1, s, j + 1, literal_separator)

\* What GlobMatcher::new ends with: a matcher, an Err, or a panic.
GlobOk(patterns, literal_separator) ==
    [outcome |-> "ok", err |-> "none", patterns |-> patterns,
     literal_separator |-> literal_separator]

GlobEnd(outcome, msg) ==
    [outcome |-> outcome, err |-> msg, patterns |-> <<>>, literal_separator |-> FALSE]

\* GlobMatcher::new (search.rs:57-82).
GlobMatcher_new(pattern) ==
    LET parts == split_whitespace(pattern)
    IN  IF pattern = <<>> THEN GlobEnd("panic", "Pattern must not be empty")
        ELSE IF str_len(pattern) > MAX_TERM_LENGTH THEN GlobEnd("panic", "Pattern too long")
        ELSE IF Len(parts) > MAX_PATTERNS THEN GlobEnd("err", "Too many pattern parts")
        ELSE IF Len(parts) = 0 THEN GlobEnd("panic", "Must have at least one pattern")
        ELSE GlobOk(parts, TRUE)

\* snapfind/search.rs:51-55: a part with a '*' that does not start with one
\* gets a '*' in front.
pattern_str(part) ==
    IF Head(part) # 42 /\ contains(part, 42) THEN <<42>> \o part ELSE part

\* GlobMatcher::new of the later revision (snapfind/search.rs:42-77).
snapfind_GlobMatcher_new(pattern) ==
    LET parts == split_whitespace(pattern)
    IN  IF pattern = <<>> THEN GlobEnd("panic", "Pattern must not be empty")
        ELSE IF str_len(pattern) > MAX_TERM_LENGTH THEN GlobEnd("panic", "Pattern too long")
        ELSE IF Len(parts) > MAX_PATTERNS THEN GlobEnd("err", "Too many pattern parts")
        ELSE IF Len(parts) = 0 THEN GlobEnd("panic", "Must have at least one pattern")
        ELSE GlobOk([k \in 1..Len(parts) |-> pattern_str(parts[k])], FALSE)

\* The assert of GlobMatcher::is_match (search.rs:87) fails.
is_match_panics(path) == Len(path) > MAX_PATH_BYTES

\* GlobMatcher::is_match (search.rs:85-92), for a path that passes the assert.
is_match(matcher, path) ==
    /\ is_utf8(path)
    /\ \E k \in 1..Len(matcher.patterns) :
        glob_is_match(matcher.patterns[k], 1, path, 1, matcher.literal_separator)

(***************************************************************************)
(* SearchEngine::search (search.rs:367-412, snapfind/search.rs:414-472).   *)
(***************************************************************************)
\* Mutant: the boosted score is not clamped.
boost_unclamped(score) == times_1_5(score)

\* search.rs:383
boost(score) == min_100(times_1_5(score))

\* search.rs:379-384: the score of one document.
doc_score(glob_matcher, query, doc) ==
    LET score == calculate_score(query, doc)
    IN  IF is_match(glob_matcher, doc.path) THEN boost(score) ELSE score

\* Mutant: a wildcard query is scored as any other, the glob only a boost.
snapfind_doc_score_boost_only(glob_matcher, query, doc) ==
    doc_score(glob_matcher, query, doc)

\* snapfind/search.rs:421-437: the score of one document.
snapfind_doc_score(glob_matcher, query, doc) ==
    LET is_glob_query == contains(query, 42)
    IN  IF is_glob_query
            THEN (IF is_match(glob_matcher, doc.path) THEN score_hundred ELSE score_zero)
            ELSE LET base_score == calculate_score(query, doc)
                 IN  IF is_match(glob_matcher, doc.path) THEN boost(base_score)
                     ELSE base_score

RECURSIVE positive_scores(_, _)
\* search.rs:386-390: (score, idx) of the documents with score > 0.0.
positive_scores(doc_scores, idx) ==
    IF idx > Len(doc_scores) THEN <<>>
    ELSE (IF score_lt(score_zero, doc_scores[idx])
              THEN <<[score |-> doc_scores[idx], idx |-> idx]>>
              ELSE <<>>)
         \o positive_scores(doc_scores, idx + 1)

\* Mutant: x goes before the elements of sorted that compare equal to it.
sort_insert_before_equal(sorted, x) ==
    LET k == Cardinality({p \in 1..Len(sorted) : score_lt(x.score, sorted[p].score)})
    IN  SubSeq(sorted, 1, k) \o <<x>> \o SubSeq(sorted, k + 1, Len(sorted))

\* x goes after the elements of sorted that do not compare below it.
sort_insert(sorted, x) ==
    LET k == Cardinality({p \in 1..Len(sorted) : ~score_lt(sorted[p].score, x.score)})
    IN  SubSeq(sorted, 1, k) \o <<x>> \o SubSeq(sorted, k + 1, Len(sorted))

RECURSIVE sort_by_score_desc(_)
\* search.rs:397-399: slice::sort_by is stable; descending by score.
sort_by_score_desc(scores) ==
    IF scores = <<>> THEN <<>>
    ELSE sort_insert(sort_by_score_desc(Front(scores)), Last(scores))

SearchEnd(outcome, msg) ==
    [outcome |-> outcome, err |-> msg, results |-> <<>>, doc_scores |-> <<>>]

\* search.rs:393-411, common to both revisions: sort, take, build results.
\* doc_scores, the score computed for every document, is kept for the claims.
rank(docs, doc_scores) ==
    LET scores == positive_scores(doc_scores, 1)
        top    == take(sort_by_score_desc(scores), MAX_RESULTS)
    IN  IF Len(scores) > MAX_DOCUMENTS THEN SearchEnd("err", "Too many matching documents")
        ELSE [outcome |-> "ok", err |-> "none",
              results |-> [r \in 1..Len(top) |->
                              [path |-> docs[top[r].idx].path, score |-> top[r].score,
                               idx |-> top[r].idx]],
              doc_scores |-> doc_scores]

search(docs, query) ==
    LET glob_matcher == GlobMatcher_new(query)
    IN  IF validate_query(query) # "none" THEN SearchEnd("err", validate_query(query))
        ELSE IF glob_matcher.outcome # "ok"
            THEN SearchEnd(glob_matcher.outcome, glob_matcher.err)
        ELSE IF \E i \in 1..Len(docs) : is_match_panics(docs[i].path)
            THEN SearchEnd("panic", "Path too long")
        ELSE rank(docs, [i \in 1..Len(docs) |-> doc_score(glob_matcher, query, docs[i])])

snapfind_search(docs, query) ==
    LET glob_matcher == snapfind_GlobMatcher_new(query)
    IN  IF validate_query(query) # "none" THEN SearchEnd("err", validate_query(query))
        ELSE IF glob_matcher.outcome # "ok"
            THEN SearchEnd(glob_matcher.outcome, glob_matcher.err)
        ELSE IF \E i \in 1..Len(docs) : is_match_panics(docs[i].path)
            THEN SearchEnd("panic", "Path too long")
        ELSE rank(docs, [i \in 1..Len(docs) |-> snapfind_doc_score(glob_matcher, query, docs[i])])

(***************************************************************************)
(* Queries handed to search, as chars.                                     *)
(***************************************************************************)
QueryInputs ==
    { <<>>,                                   \* ""
      <<42, 46, 116, 120, 116>>,              \* "*.txt"
      <<42, 46, 77, 68>>,                     \* "*.MD"
      <<42>>,                                 \* "*"
      <<97, 42>>,                             \* "a*"
      <<97, 46, 116, 120, 116>>,              \* "a.txt"
      <<98, 46, 109, 100>>,                   \* "b.md"
      <<116, 120, 116>>,                      \* "txt"
      <<65>>,                                 \* "A"
      <<109, 100, 32, 97>>,                   \* "md a"
      <<97, 32, 98, 32, 99>>,                 \* "a b c": more than MAX_PATTERNS parts
      <<32>>,                                 \* " "
      <<160>>,                                \* U+00A0, whitespace that is not ASCII
      <<97, 8195, 98>>,                       \* "a", U+2003, "b"
      <<233>>,                                \* U+00E9
      <<97, 0>>,                              \* "a", NUL
      <<97, 97, 97, 97, 97, 97>> }            \* MAX_TERM_LENGTH + 1 bytes

\* search of src/src/search.rs.
Search ==
    /\ ~disk.exists
    /\ eret.op \in {"new", "add_document", "search"}
    /\ Alive
    /\ \E query \in QueryInputs :
        eret' = [op |-> "search", revision |-> "search.rs", query |-> query,
                 res |-> search(documents, query)]
    /\ UNCHANGED <<crawlerVars, allocVars, textVars, documents, disk>>

\* search of src/src/snapfind/search.rs.
SnapfindSearch ==
    /\ ~disk.exists
    /\ eret.op \in {"new", "add_document", "search"}
    /\ Alive
    /\ \E query \in QueryInputs :
        eret' = [op |-> "search", revision |-> "snapfind/search.rs", query |-> query,
                 res |-> snapfind_search(documents, query)]
    /\ UNCHANGED <<crawlerVars, allocVars, textVars, documents, disk>>

NextSearch == AddDocument \/ Search \/ SnapfindSearch

SpecSearch == Init /\ [][NextSearch]_vars

(***************************************************************************)
(* The public functions of the engine that take no engine: one call of     *)
(* calculate_score, term_matches or validate_query on a new engine.        *)
(***************************************************************************)
\* Documents a store can hold, built from the inputs of add_document.
DocumentInputs ==
    {[path |-> path, content |-> content] :
        path \in PathInputs, content \in {c \in ContentInputs : ~content_too_large(c)}}

\* SearchEngine::calculate_score(query, doc), for each of two documents.
CalculateScore ==
    /\ eret.op = "new"
    /\ \E query \in QueryInputs, doc \in DocumentInputs, other \in DocumentInputs :
        eret' = [op |-> "calculate_score", query |-> query, doc |-> doc, other |-> other,
                 score |-> calculate_score(query, doc),
                 other_score |-> calculate_score(query, other)]
    /\ UNCHANGED <<crawlerVars, allocVars, textVars, documents, disk>>

\* Terms: "", "a", "A", "md", "b.md", "aaaaaa" (MAX_TERM_LENGTH + 1 bytes).
TermInputs ==
    { <<>>, <<97>>, <<65>>, <<109, 100>>, <<98, 46, 109, 100>>,
      <<97, 97, 97, 97, 97, 97>> }

\* Contents: "", "a", "ab", "ba", "md", "xmd", "mdx", "B.MD A" and "aaaaaa"
\* (MAX_CONTENT_LENGTH bytes), "b.md a." and "aaaaaa " (one byte more).
HaystackInputs ==
    { <<>>, <<97>>, <<97, 98>>, <<98, 97>>, <<109, 100>>, <<120, 109, 100>>,
      <<109, 100, 120>>, <<66, 46, 77, 68, 32, 65>>, <<97, 97, 97, 97, 97, 97>>,
      <<98, 46, 109, 100, 32, 97, 46>>, <<97, 97, 97, 97, 97, 97, 32>> }

\* SearchEngine::term_matches(term, content)
TermMatches ==
    /\ eret.op = "new"
    /\ \E term \in TermInputs, content \in HaystackInputs :
        eret' = [op |-> "term_matches", term |-> term, content |-> content,
                 res |-> term_matches(term, content)]
    /\ UNCHANGED <<crawlerVars, allocVars, textVars, documents, disk>>

\* validate_query(query), and what search then does with the query.
ValidateQuery ==
    /\ eret.op = "new"
    /\ \E query \in QueryInputs :
        eret' = [op |-> "validate_query", query |-> query, err |-> validate_query(query),
                 searched |-> search(documents, query)]
    /\ UNCHANGED <<crawlerVars, allocVars, textVars, documents, disk>>

NextPure == CalculateScore \/ TermMatches \/ ValidateQuery

SpecPure == Init /\ [][NextPure]_vars

(***************************************************************************)
(* TextDetector (text.rs, and its later revision snap_find/text.rs).  The  *)
(* detector is [stats, sample_buf]; a verdict is [outcome, confidence,     *)
(* encoding, mime_type], or [outcome |-> "panic"] when the call aborts.    *)
(***************************************************************************)
\* u8::saturating_sub and u8::saturating_add
saturating_sub(a, b) == IF a < b THEN 0 ELSE a - b

saturating_add(a, b) == IF a + b > 255 THEN 255 ELSE a + b

\* u8::try_from(n).unwrap_or(default)
u8_try_from_or(n, default) == IF n <= 255 THEN n ELSE default

\* <[u8]>::starts_with and str::starts_with
starts_with(s, prefix) ==
    Len(prefix) <= Len(s) /\ SubSeq(s, 1, Len(prefix)) = prefix

\* str::contains(&str)
contains_str(s, pat) ==
    \E i \in 1..(Len(s) - Len(pat) + 1) : SubSeq(s, i, i + Len(pat) - 1) = pat

\* Utf8Error::valid_up_to: the length of the longest valid prefix.
RECURSIVE valid_up_to_from(_, _)
valid_up_to_from(s, i) ==
    IF i > Len(s) THEN i - 1
    ELSE LET k == utf8_step(s, i)
         IN  IF k > 0 THEN valid_up_to_from(s, i + k) ELSE i - 1

valid_up_to(s) == valid_up_to_from(s, 1)

\* TextValidation::binary (text.rs:68-70)
binary ==
    [outcome |-> "ok", confidence |-> 0, encoding |-> "Unknown", mime_type |-> "Unknown"]

\* TextValidation::is_valid_text (text.rs:73-75)
is_valid_text(validation) == validation.confidence >= 50

\* TextStats::update (text.rs:112-139).  Its assertions hold of every call:
\* at most TEXT_SAMPLE_SIZE bytes are counted, and the ratio stays within 100.
update(stats, byte) ==
    [null_bytes    |-> stats.null_bytes + (IF byte = 0 THEN 1 ELSE 0),
     control_chars |-> stats.control_chars
                           + (IF byte < 32 /\ byte \notin {10, 13, 9} THEN 1 ELSE 0),
     utf8_errors   |-> stats.utf8_errors,
     line_breaks   |-> stats.line_breaks + (IF byte = 10 THEN 1 ELSE 0),
     ascii_ratio   |-> IF byte < 128 THEN (stats.ascii_ratio * 99 + 100) \div 100
                                     ELSE (stats.ascii_ratio * 99) \div 100]

\* The loop of analyze_content over the sample (text.rs:191-193).
RECURSIVE update_each(_, _)
update_each(stats, sample) ==
    IF sample = <<>> THEN stats
    ELSE update_each(update(stats, Head(sample)), Tail(sample))

\* TextDetector::check_basic_validity (text.rs:167-179); the size limit is
\* TEXT_SAMPLE_SIZE * 1024 in the source, TEXT_SAMPLE_SIZE * 2 here.
check_basic_validity(content) ==
    /\ content # <<>>
    /\ ~(Len(content) > TEXT_SAMPLE_SIZE * 2)

\* TextDetector::analyze_content (text.rs:182-210, snap_find/text.rs:154-176)
\* of a non-empty content: [ok, detector].  The sample overwrites the first
\* sample_size bytes of the buffer; the bytes after them are left as they were.
analyze_content(self, content) ==
    LET sample_size == IF Len(content) < TEXT_SAMPLE_SIZE THEN Len(content)
                                                          ELSE TEXT_SAMPLE_SIZE
        sample      == SubSeq(content, 1, sample_size)
        sample_buf  == sample \o SubSeq(self.sample_buf, sample_size + 1, TEXT_SAMPLE_SIZE)
        counted     == update_each(TextStats_new, sample)
        ascii_count == Count([i \in 1..sample_size |-> sample[i] < 128])
        rated       == [counted EXCEPT !.ascii_ratio = (ascii_count * 100) \div sample_size]
        checked     == IF is_utf8(sample) THEN rated
                       ELSE [rated EXCEPT !.utf8_errors = valid_up_to(sample)]
    IN  IF counted.null_bytes > sample_size \div 10
            THEN [ok |-> FALSE, detector |-> [stats |-> counted, sample_buf |-> sample_buf]]
            ELSE [ok |-> TRUE, detector |-> [stats |-> checked, sample_buf |-> sample_buf]]

\* The mutation of is_binary_header that knows the zip header only.
is_binary_header_zip_only(self) ==
    SubSeq(self.sample_buf, 1, 4) = <<80, 75, 3, 4>>

\* TextDetector::is_binary_header (text.rs:287-290, snap_find/text.rs:237-240):
\* the first four bytes of the buffer are PK 03 04, 7F E L F or 89 P N G.
is_binary_header(self) ==
    SubSeq(self.sample_buf, 1, 4)
        \in { <<80, 75, 3, 4>>, <<127, 69, 76, 70>>, <<137, 80, 78, 71>> }

\* The MIME type of text.rs:253-281, from the whole buffer read as UTF-8
\* (the empty string when it is not UTF-8).
mime_type_of(self) ==
    LET sample == IF is_utf8(self.sample_buf) THEN self.sample_buf ELSE <<>>
    IN  IF \/ starts_with(sample, <<35>>)
           \/ contains_str(sample, <<10, 35>>)
           \/ contains_str(sample, <<42, 32>>)
            THEN "Markdown"
        ELSE IF \/ contains_str(sample, <<102, 110, 32>>)
                \/ contains_str(sample, <<112, 117, 98, 32>>)
                \/ contains_str(sample, <<99, 108, 97, 115, 115, 32>>)
                \/ contains_str(sample, <<100, 101, 102, 32>>)
            THEN "Source"
        ELSE IF /\ contains(sample, 61) \/ contains(sample, 58)
                /\ contains(sample, 91)
                /\ contains(sample, 93)
            THEN "Config"
        ELSE "Plain"

\* TextDetector::determine_result (text.rs:213-284).  The three penalties are
\* u8 products: one above 255 panics in a build with overflow checks and
\* wraps in a build without them.
determine_result(self, overflow_checks) ==
    LET stats     == self.stats
        nulls     == u8_try_from_or(stats.null_bytes, 255) * 10
        controls  == u8_try_from_or(stats.control_chars, 255) * 5
        errors    == u8_try_from_or(stats.utf8_errors, 255) * 20
        penalized == saturating_sub(saturating_sub(saturating_sub(100, nulls % 256),
                                                   controls % 256), errors % 256)
        rated     == IF stats.ascii_ratio < 50 THEN saturating_sub(penalized, 50)
                                               ELSE penalized
        broken    == IF stats.line_breaks > 0 THEN saturating_add(rated, 10) ELSE rated
        confidence == IF stats.ascii_ratio > 90 THEN saturating_add(broken, 30) ELSE broken
    IN  IF is_binary_header(self) \/ stats.null_bytes > 10 THEN binary
        ELSE IF overflow_checks /\ (nulls > 255 \/ controls > 255 \/ errors > 255)
            THEN [outcome |-> "panic"]
        ELSE [outcome    |-> "ok",
              confidence |-> confidence,
              encoding   |-> IF confidence < 50 THEN "Unknown"
                             ELSE IF stats.utf8_errors = 0 THEN "Utf8" ELSE "Unknown",
              mime_type  |-> IF confidence < 50 THEN "Unknown" ELSE mime_type_of(self)]

\* The MIME type of snap_find/text.rs:203-228, from the bytes of the whole
\* buffer.
snap_find_mime_type_of(self) ==
    LET sample_buf == self.sample_buf
    IN  IF self.stats.line_breaks = 0 THEN "Plain"
        ELSE IF starts_with(sample_buf, <<35, 33>>) \/ starts_with(sample_buf, <<60, 63>>)
            THEN "Source"
        ELSE IF \/ starts_with(sample_buf, <<91>>)
                \/ starts_with(sample_buf, <<35, 32>>) /\ contains(sample_buf, 91)
            THEN "Config"
        ELSE IF \/ starts_with(sample_buf, <<35, 32>>)
                \/ starts_with(sample_buf, <<35, 35, 32>>)
                \/ /\ contains(sample_buf, 35)
                   /\ \/ contains(sample_buf, 42)
                      \/ contains(sample_buf, 45)
                      \/ contains(sample_buf, 91)
                      \/ contains(sample_buf, 96)
            THEN "Markdown"
        ELSE IF \/ contains(sample_buf, 123)
                \/ contains(sample_buf, 125)
                \/ contains(sample_buf, 61)
                \/ contains(sample_buf, 59)
            THEN "Source"
        ELSE "Plain"

\* TextDetector::determine_result (snap_find/text.rs:178-235)
snap_find_determine_result(self) ==
    LET stats    == self.stats
        controls == IF stats.control_chars > 0
                        THEN saturating_sub(100, u8_try_from_or(stats.control_chars, 100))
                        ELSE 100
        errors   == IF stats.utf8_errors > 0
                        THEN saturating_sub(controls,
                                            u8_try_from_or(stats.utf8_errors * 10, 100))
                        ELSE controls
        broken   == IF stats.line_breaks < 2 THEN saturating_sub(errors, 20) ELSE errors
        confidence == IF stats.ascii_ratio < 90
                          THEN saturating_sub(broken, saturating_sub(90, stats.ascii_ratio))
                          ELSE broken
    IN  IF is_binary_header(self) \/ stats.null_bytes > 0 THEN binary
        ELSE [outcome    |-> "ok",
              confidence |-> IF confidence < 100 THEN confidence ELSE 100,
              encoding   |-> "Utf8",
              mime_type  |-> snap_find_mime_type_of(self)]

\* TextDetector::validate (text.rs:151-164): [res, detector].
validate(self, content, overflow_checks) ==
    IF ~check_basic_validity(content) THEN [res |-> binary, detector |-> self]
    ELSE LET analyzed == analyze_content(self, content)
         IN  [res      |-> IF ~analyzed.ok THEN binary
                           ELSE determine_result(analyzed.detector, overflow_checks),
              detector |-> analyzed.detector]

\* TextDetector::validate (snap_find/text.rs:129-140)
snap_find_validate(self, content) ==
    IF ~check_basic_validity(content) THEN [res |-> binary, detector |-> self]
    ELSE LET analyzed == analyze_content(self, content)
         IN  [res      |-> IF ~analyzed.ok THEN binary
                           ELSE snap_find_determine_result(analyzed.detector),
              detector |-> analyzed.detector]

\* n bytes b
Repeat(b, n) == [i \in 1..n |-> b]

\* File contents: "", "PK\x03\x04", "P", "\x7FELF\x01", "\x89PNG", "a\nb\n",
\* "#!x\n", "#!x", "a\n#{", "x\n", "\x01\x02a", C3 A9 (e acute) and "\n",
\* C3 A9 and 01, FF and "a\nb\naaaaaa", nine a's and a NUL, thirteen a's
\* and FF, "PK\x03\x04" and thirteen a's (one byte more than the sample),
\* and one byte more than check_basic_validity admits.
TextInputs ==
    { <<>>, <<80, 75, 3, 4>>, <<80>>, <<127, 69, 76, 70, 1>>, <<137, 80, 78, 71>>,
      <<97, 10, 98, 10>>, <<35, 33, 120, 10>>, <<35, 33, 120>>, <<97, 10, 35, 123>>,
      <<120, 10>>, <<1, 2, 97>>, <<195, 169, 10>>, <<195, 169, 1>>,
      <<255, 97, 10, 98, 10>> \o Repeat(97, 6),
      Repeat(97, 9) \o <<0>>,
      Repeat(97, 13) \o <<255>>,
      <<80, 75, 3, 4>> \o Repeat(97, TEXT_SAMPLE_SIZE - 3),
      Repeat(97, TEXT_SAMPLE_SIZE * 2 + 1) }

\* The process is gone once validate has panicked.
Detecting(revision) ==
    IF tret.op = "new" THEN TRUE
    ELSE tret.revision = revision /\ tret.res.outcome # "panic"

\* detector.validate(&content) of main.rs:104, compiled from text.rs, in a
\* build with or without overflow checks.
Validate ==
    /\ Detecting("text.rs")
    /\ \E content \in TextInputs, overflow_checks \in BOOLEAN :
        /\ IF tret.op = "new" THEN TRUE ELSE tret.overflow_checks = overflow_checks
        /\ LET validated == validate(detector, content, overflow_checks)
           IN  /\ detector' = validated.detector
               /\ tret' = [op |-> "validate", revision |-> "text.rs",
                           overflow_checks |-> overflow_checks, content |-> content,
                           res |-> validated.res]
    /\ UNCHANGED <<crawlerVars, allocVars, engineVars>>

\* The same call compiled from snap_find/text.rs, which has no arithmetic
\* that can overflow.
SnapFindValidate ==
    /\ Detecting("snap_find/text.rs")
    /\ \E content \in TextInputs :
        LET validated == snap_find_validate(detector, content)
        IN  /\ detector' = validated.detector
            /\ tret' = [op |-> "validate", revision |-> "snap_find/text.rs",
                        overflow_checks |-> FALSE, content |-> content,
                        res |-> validated.res]
    /\ UNCHANGED <<crawlerVars, allocVars, engineVars>>

NextText == Validate \/ SnapFindValidate

(***************************************************************************)
(* The orchestrator (main.rs): what index_directory and the rebuild path   *)
(* of search_files do with one file the crawler returned.                  *)
(***************************************************************************)
\* The path and the contents of the files: "a\nb\n", C3 A9 01, "PK\x03\x04",
\* "P", and FF followed by "a\nb\naaaaaa", which is not UTF-8.
FilePath == <<97, 46, 116, 120, 116>>

FileInputs ==
    { <<97, 10, 98, 10>>, <<195, 169, 1>>, <<80, 75, 3, 4>>, <<80>>,
      <<255, 97, 10, 98, 10>> \o Repeat(97, 6) }

\* std::str::from_utf8(&content).unwrap_or("") (main.rs:122)
from_utf8_or_empty(content) == IF is_utf8(content) THEN content ELSE <<>>

\* The orchestrator goes on to the next file: it has added every file so far
\* without an error, and validate has not panicked.
Orchestrating(op) ==
    IF eret.op = "new" THEN tret.op = "new"
    ELSE eret.op = op /\ eret.err = "none"

\* index_directory (main.rs:99-139) on one file that fs::read could read:
\* the file is added when its verdict is valid text.
IndexFile ==
    /\ Orchestrating("index_file")
    /\ \E content \in FileInputs, overflow_checks \in BOOLEAN :
        /\ IF tret.op = "new" THEN TRUE ELSE tret.overflow_checks = overflow_checks
        /\ LET validated == validate(detector, content, overflow_checks)
               indexed   == validated.res.outcome = "ok" /\ is_valid_text(validated.res)
               added     == add_document(documents, FilePath, from_utf8_or_empty(content))
           IN  /\ detector' = validated.detector
               /\ tret' = [op |-> "validate", revision |-> "text.rs",
                           overflow_checks |-> overflow_checks, content |-> content,
                           res |-> validated.res]
               /\ documents' = IF indexed THEN added.documents ELSE documents
               /\ eret' = [op |-> "index_file", content |-> content, was |-> documents,
                           err |-> IF validated.res.outcome = "panic" THEN "panic"
                                   ELSE IF indexed THEN added.err ELSE "none"]
    /\ UNCHANGED <<crawlerVars, allocVars, disk>>

\* search_files, no index loaded (main.rs:190-201), on one file: the file is
\* added when fs::read_to_string can read it, that is when it is UTF-8.
RebuildFile ==
    /\ Orchestrating("rebuild_file")
    /\ \E content \in FileInputs :
        LET added == add_document(documents, FilePath, content)
        IN  /\ documents' = IF is_utf8(content) THEN added.documents ELSE documents
            /\ eret' = [op |-> "rebuild_file", content |-> content, was |-> documents,
                        err |-> IF is_utf8(content) THEN added.err ELSE "none"]
    /\ UNCHANGED <<crawlerVars, allocVars, textVars, disk>>

NextMain == IndexFile \/ RebuildFile

SpecMain == Init /\ [][NextMain]_vars

(***************************************************************************)
(* TrackingAllocator (alloc.rs:41-77) called from several threads.  Every  *)
(* atomic operation is one step of the thread that makes it.               *)
(***************************************************************************)
\* layout.size() of the allocations; 1024 in the tests.
AllocSizes == {1, 2}

\* Mutant: the exchange stores the new value whatever the cell holds.
compare_exchange_blind(cell, current, new) == [ok |-> TRUE, cell |-> new]

\* AtomicUsize::compare_exchange on a cell: whether it succeeded and what
\* the cell holds after it (alloc.rs:52).
compare_exchange(cell, current, new) ==
    IF cell = current THEN [ok |-> TRUE, cell |-> new] ELSE [ok |-> FALSE, cell |-> cell]

\* alloc.rs:46-47: allocated.fetch_add(size), new_size = old_size + size.
AllocFetchAdd(t) ==
    /\ threads[t].pc = "idle"
    /\ threads[t].allocs < MaxAllocs
    /\ \E size \in AllocSizes :
        LET new_size == allocator.allocated + size
        IN  /\ allocator' = [allocator EXCEPT !.allocated = new_size]
            /\ threads' = [threads EXCEPT ![t] =
                              [pc |-> "load", size |-> size, new_size |-> new_size,
                               peak |-> 0, allocs |-> @.allocs + 1]]
            /\ high' = IF new_size > high THEN new_size ELSE high
    /\ UNCHANGED <<crawlerVars, engineVars, textVars>>

\* alloc.rs:50: let mut peak = self.peak.load(..)
AllocLoadPeak(t) ==
    /\ threads[t].pc = "load"
    /\ threads' = [threads EXCEPT ![t].pc = "loop", ![t].peak = allocator.peak]
    /\ UNCHANGED <<allocator, high>>
    /\ UNCHANGED <<crawlerVars, engineVars, textVars>>

\* alloc.rs:51-56: one turn of `while new_size > peak`.
AllocLoop(t) ==
    /\ threads[t].pc = "loop"
    /\ IF threads[t].new_size > threads[t].peak
           THEN LET exchanged == compare_exchange(allocator.peak, threads[t].peak,
                                                  threads[t].new_size)
                IN  /\ allocator' = [allocator EXCEPT !.peak = exchanged.cell]
                    /\ threads' = IF exchanged.ok
                                      THEN [threads EXCEPT ![t].pc = "assert"]
                                      ELSE [threads EXCEPT ![t].peak = allocator.peak]
           ELSE /\ threads' = [threads EXCEPT ![t].pc = "assert"]
                /\ UNCHANGED allocator
    /\ UNCHANGED high
    /\ UNCHANGED <<crawlerVars, engineVars, textVars>>

\* alloc.rs:59-66: the assertion on initializing, then inner.alloc.
AllocAssert(t) ==
    /\ threads[t].pc = "assert"
    /\ threads' = [threads EXCEPT ![t].pc = IF allocator.initializing THEN "held"
                                                                      ELSE "panic",
                                  ![t].new_size = 0, ![t].peak = 0]
    /\ UNCHANGED <<allocator, high>>
    /\ UNCHANGED <<crawlerVars, engineVars, textVars>>

\* TrackingAllocator::dealloc (alloc.rs:69-76) of the memory the thread holds.
Dealloc(t) ==
    /\ threads[t].pc = "held"
    /\ allocator' = [allocator EXCEPT !.allocated = @ - threads[t].size]
    /\ threads' = [threads EXCEPT ![t].pc = "idle", ![t].size = 0]
    /\ UNCHANGED high
    /\ UNCHANGED <<crawlerVars, engineVars, textVars>>

\* TrackingAllocator::end_init (alloc.rs:31-33)
EndInit ==
    /\ allocator.initializing
    /\ allocator' = [allocator EXCEPT !.initializing = FALSE]
    /\ UNCHANGED <<threads, high>>
    /\ UNCHANGED <<crawlerVars, engineVars, textVars>>

NextAlloc ==
    \/ \E t \in Threads :
        AllocFetchAdd(t) \/ AllocLoadPeak(t) \/ AllocLoop(t) \/ AllocAssert(t) \/ Dealloc(t)
    \/ EndInit

SpecAlloc == Init /\ [][NextAlloc]_vars

SpecText == Init /\ [][NextText]_vars

(***************************************************************************)
(* Claims about the crawler.                                               *)
(***************************************************************************)
QueueIds == {queue[i].id : i \in 1..Len(queue)}

\* C1: after Crawler::new and any sequence of process_next calls, failing
\* ones included, files_seen is at most MAX_FILES, and neither files_seen nor
\* dirs_seen of progress() is smaller than it was before the last call.
C1_CountsBoundedAndMonotone ==
    /\ file_count <= MAX_FILES
    /\ progress[1] >= before[1]
    /\ progress[3] >= before[3]

\* C1 witness: a call that accepted files up to the limit and then failed.
C1_Witness ==
    /\ ret.kind = "Err"
    /\ file_count = MAX_FILES
    /\ before[1] < file_count

\* C6 (as claimed): DepthExceeded is returned only when the entry's depth
\* d+1 would reach MAX_DEPTH, never because of the number of pending
\* directories.
C6_DepthExceededOnlyByDepth ==
    (ret.kind = "Err" /\ ret.err = "DepthExceeded") => ret.new_depth >= MAX_DEPTH

\* C7 (as claimed): once a process_next call has returned an error, no later
\* call on the same crawler returns a batch of files.
C7_NoBatchAfterError == aborted => ret.kind # "Some"

\* C7 (amended): the directory whose visit failed is not retried: it has
\* left the queue and no pending directory has been visited before, so a
\* batch returned after an error is that of another, still pending directory.
C7_FailedDirectoryNotRetried ==
    /\ QueueIds \cap visited = {}
    /\ ret.kind \in {"Some", "Err"} => ret.dir.id \in visited

\* C7 witness: a batch returned by a call made after a failed call.
C7_Witness == aborted /\ ret.kind = "Some" /\ Len(ret.files) > 0

\* C8: a file entry is accepted, and files_seen incremented by one, exactly
\* when files_seen < MAX_FILES and its size is at most MAX_FILE_SIZE;
\* otherwise the call fails with FileCountExceeded (checked first) or
\* FileSizeExceeded; a successful call adds the batch length to files_seen.
C8_FileAcceptance ==
    /\ ret.kind = "Some" =>
        /\ Len(ret.files) = ret.nfiles
        /\ file_count = before[1] + Len(ret.files)
        /\ \A i \in 1..Len(ret.files) :
            /\ ret.files[i].size <= MAX_FILE_SIZE
            /\ before[1] + i - 1 < MAX_FILES
    /\ (ret.kind = "Err" /\ ret.err = "FileCountExceeded") =>
        /\ ~ret.entry.is_dir
        /\ file_count >= MAX_FILES
    /\ (ret.kind = "Err" /\ ret.err = "FileSizeExceeded") =>
        /\ ~ret.entry.is_dir
        /\ file_count < MAX_FILES
        /\ ret.entry.size > MAX_FILE_SIZE
    /\ (ret.kind = "Err" /\ ret.at \in {"count", "size", "files"}) =>
        \/ file_count >= MAX_FILES /\ ret.err = "FileCountExceeded"
        \/ file_count < MAX_FILES /\ ret.entry.size > MAX_FILE_SIZE
              /\ ret.err = "FileSizeExceeded"

\* C8 witness: an oversized file met at the file limit, after files of this
\* call were accepted: the count check comes first.
C8_Witness ==
    /\ ret.kind = "Err"
    /\ ret.err = "FileCountExceeded"
    /\ ret.entry.size > MAX_FILE_SIZE
    /\ file_count > before[1]

(***************************************************************************)
(* Claims about add_document.                                              *)
(***************************************************************************)
\* C2 (as claimed): the store never holds more than MAX_DOCUMENTS documents,
\* and add_document on a store holding MAX_DOCUMENTS documents is rejected
\* with the error "Too many documents", the documents unchanged.
C2_FullStoreTooManyDocuments ==
    /\ Len(documents) <= MAX_DOCUMENTS
    /\ (eret.op = "add_document" /\ Len(eret.was) = MAX_DOCUMENTS) =>
        /\ eret.err = "Too many documents"
        /\ documents = eret.was

\* C2 (amended): the store never holds more than MAX_DOCUMENTS documents,
\* and add_document on a full store is rejected, the documents unchanged:
\* with "Content too large" when the content exceeds MAX_CONTENT_LENGTH
\* (that check comes first), with "Too many documents" otherwise.
C2_FullStoreRejects ==
    /\ Len(documents) <= MAX_DOCUMENTS
    /\ (eret.op = "add_document" /\ Len(eret.was) = MAX_DOCUMENTS) =>
        /\ eret.err = IF Len(eret.content) > MAX_CONTENT_LENGTH
                          THEN "Content too large"
                          ELSE "Too many documents"
        /\ documents = eret.was

\* C2 witness: an oversized content offered to a full store.
C2_Witness ==
    /\ eret.op = "add_document"
    /\ Len(eret.was) = MAX_DOCUMENTS
    /\ eret.err = "Content too large"

\* C9: add_document with a content longer than MAX_CONTENT_LENGTH fails with
\* "Content too large" however full the store is and leaves the documents
\* unchanged; a content of exactly MAX_CONTENT_LENGTH bytes is accepted when
\* the store is not full.
C9_ContentTooLarge ==
    eret.op = "add_document" =>
        /\ Len(eret.content) > MAX_CONTENT_LENGTH =>
            /\ eret.err = "Content too large"
            /\ documents = eret.was
        /\ (Len(eret.content) = MAX_CONTENT_LENGTH /\ Len(eret.was) < MAX_DOCUMENTS) =>
            /\ eret.err = "none"
            /\ documents = Append(eret.was, [path |-> eret.path, content |-> eret.content])

\* C9 witness: an oversized content refused by a store that is neither empty
\* nor full.
C9_Witness ==
    /\ eret.op = "add_document"
    /\ Len(eret.content) = MAX_CONTENT_LENGTH + 1
    /\ Len(eret.was) = 1
    /\ eret.err = "Content too large"

(***************************************************************************)
(* Claims about save and load.                                             *)
(***************************************************************************)
\* The file as load read it.
FileRead == ApplyTamper(disk.bytes, eret.tamper)

\* A load of the untouched file of a save that succeeded.
LoadedIntact ==
    /\ eret.op = "load"
    /\ eret.after = "none"
    /\ eret.tamper.kind = "none"

\* C3 (as claimed): load of a successfully saved file yields the same number
\* of documents in the same order, path bytes and content bytes equal to the
\* originals.
C3_RoundTripExact ==
    LoadedIntact =>
        /\ eret.res.ok
        /\ eret.res.documents = documents

\* C3 (amended): as claimed for the contents and for every path that is valid
\* UTF-8; a path that is not comes back with each invalid sequence replaced
\* by U+FFFD.
C3_RoundTripLossyPath ==
    LoadedIntact =>
        /\ eret.res.ok
        /\ Len(eret.res.documents) = Len(documents)
        /\ \A i \in 1..Len(documents) :
            /\ eret.res.documents[i].content = documents[i].content
            /\ is_utf8(documents[i].path) =>
                eret.res.documents[i].path = documents[i].path
            /\ ~is_utf8(documents[i].path) =>
                /\ eret.res.documents[i].path = from_utf8_lossy(documents[i].path)
                /\ eret.res.documents[i].path # documents[i].path

\* C3 witness: a round trip of several documents, one with a path that is
\* not UTF-8, a later one with a path that is.
C3_Witness ==
    /\ LoadedIntact
    /\ eret.res.ok
    /\ Len(documents) >= 2
    /\ ~is_utf8(documents[1].path)
    /\ is_utf8(documents[2].path)

\* Offsets (from 1) of the path_len and content_len fields of record k in
\* the file save wrote for documents.
PathLenPos(k) == Len(save(SubSeq(documents, 1, k - 1)).bytes) + 1

ContentLenPos(k) == PathLenPos(k) + 2 + Len(save_path_bytes(documents[k].path))

U16At(bytes, pos) == bytes[pos] + 256 * bytes[pos + 1]

\* What the claim lists, read off the file: a wrong magic, a wrong version, a
\* count or a length beyond its limit, a file shorter than what was saved.
FileDefect ==
    LET f == FileRead
    IN  \/ Len(f) < Len(disk.bytes)
        \/ Len(f) >= 4 /\ SubSeq(f, 1, 4) # <<83, 78, 65, 80>>
        \/ Len(f) >= 5 /\ f[5] # 1
        \/ Len(f) >= 9 /\ (f[6] > MAX_DOCUMENTS \/ f[7] > 0 \/ f[8] > 0 \/ f[9] > 0)
        \/ \E k \in 1..Len(documents) :
            \/ Len(f) > PathLenPos(k) /\ U16At(f, PathLenPos(k)) > MAX_PATH_BYTES
            \/ Len(f) > ContentLenPos(k)
                /\ U16At(f, ContentLenPos(k)) > MAX_CONTENT_LENGTH

\* C5: load returns an error and no engine, never the records read so far,
\* when the magic is not "SNAP", the version is not 1, doc_count exceeds
\* MAX_DOCUMENTS, a path_len exceeds MAX_PATH_BYTES, a content_len exceeds
\* MAX_CONTENT_LENGTH, or the file ends before a declared field or record is
\* complete (or there is no file).
C5_LoadRejects ==
    eret.op = "load" =>
        /\ (eret.after = "none" /\ FileDefect) =>
            /\ ~eret.res.ok
            /\ eret.res.documents = <<>>
        /\ eret.after = "no save" => ~eret.res.ok
        /\ eret.res.ok <=> eret.res.err = "none"

\* C5 witness: a file cut inside its second record, the first one complete.
C5_Witness ==
    /\ eret.op = "load"
    /\ eret.after = "none"
    /\ eret.tamper.kind = "truncate"
    /\ Len(documents) >= 2
    /\ eret.tamper.pos > PathLenPos(2)
    /\ ~eret.res.ok

(***************************************************************************)
(* Claims about search.                                                    *)
(***************************************************************************)
\* A search, of either revision, that returned results.
SearchedOk == eret.op = "search" /\ eret.res.outcome = "ok"

EndsWith(path, suffix) ==
    /\ Len(path) >= Len(suffix)
    /\ \A k \in 1..Len(suffix) :
        to_ascii_lowercase(path[Len(path) - Len(suffix) + k]) = to_ascii_lowercase(suffix[k])

\* A search of the later revision that returned results.
SnapfindSearchedOk == SearchedOk /\ eret.revision = "snapfind/search.rs"

ConsideredTerms(query) == take(split_whitespace(query), MAX_QUERY_TERMS)

\* How many of them match the path, the content of doc at word boundaries.
PathMatches(query, doc) ==
    Cardinality({t \in 1..Len(ConsideredTerms(query)) :
        term_matches(as_bytes(ConsideredTerms(query)[t]), from_utf8_lossy(doc.path))})

ContentMatches(query, doc) ==
    Cardinality({t \in 1..Len(ConsideredTerms(query)) :
        term_matches(as_bytes(ConsideredTerms(query)[t]), doc.content)})

\* Ten times the weighted sum of the claim, clamped: the score is this
\* number over the number n of terms.
ExactTimesTerms(query, doc) ==
    LET n   == Len(ConsideredTerms(query))
        sum == (6 * PathMatches(query, doc) + 4 * ContentMatches(query, doc)) * 10
    IN  IF sum > 100 * n THEN 100 * n ELSE sum

\* score * den - num, in units of the last bit of score (score.e <= 0).
ScoreError(score, num, den) == score.m * den - num * Pow2(0 - score.e)

\* C11 (as claimed): calculate_score equals min(100, 100 * sum / n), the sum
\* over the n terms considered of 0.6 for a path match and 0.4 for a content
\* match.
C11_ScoreExact ==
    (eret.op = "calculate_score" /\ Len(ConsideredTerms(eret.query)) > 0) =>
        ScoreError(eret.score, ExactTimesTerms(eret.query, eret.doc),
                   Len(ConsideredTerms(eret.query))) = 0

\* C11 (amended): calculate_score is that value as f32 arithmetic gives it,
\* at most 0.001 away from it.  For a query of one term a match in path
\* and content scores exactly 100, in the content only exactly 40, in the
\* path only 60.000004 (0.6f32 * 100.0, one bit above 60), and a document
\* matching in its path scores strictly above one matching in its content
\* only.
C11_ScoreF32 ==
    (eret.op = "calculate_score" /\ Len(ConsideredTerms(eret.query)) > 0) =>
        LET n   == Len(ConsideredTerms(eret.query))
            err == ScoreError(eret.score, ExactTimesTerms(eret.query, eret.doc), n)
            p   == PathMatches(eret.query, eret.doc)
            c   == ContentMatches(eret.query, eret.doc)
            op  == PathMatches(eret.query, eret.other)
            oc  == ContentMatches(eret.query, eret.other)
        IN  /\ eret.score.e <= 0
            /\ err <= (n * Pow2(0 - eret.score.e)) \div 1000
            /\ 0 - err <= (n * Pow2(0 - eret.score.e)) \div 1000
            /\ n = 1 =>
                /\ (p = 1 /\ c = 1) => eret.score = F32(13107200, -17)
                /\ (p = 0 /\ c = 1) => eret.score = F32(10485760, -18)
                /\ (p = 1 /\ c = 0) => eret.score = F32(15728641, -18)
                /\ (p = 0 /\ c = 0) => eret.score = F32(0, 0)
                /\ (p = 1 /\ op = 0 /\ oc = 1) => score_lt(eret.other_score, eret.score)

\* C11 witness: one term, found in the path only of one document and in the
\* content only of the other.
C11_Witness ==
    /\ eret.op = "calculate_score"
    /\ Len(ConsideredTerms(eret.query)) = 1
    /\ PathMatches(eret.query, eret.doc) = 1
    /\ ContentMatches(eret.query, eret.doc) = 0
    /\ PathMatches(eret.query, eret.other) = 0
    /\ ContentMatches(eret.query, eret.other) = 1
    /\ score_lt(eret.other_score, eret.score)

\* ASCII-lowercased bytes.
Lowered(s) == [k \in 1..Len(s) |-> to_ascii_lowercase(s[k])]

\* C12: term_matches(term, content) is true exactly when both are non-empty,
\* term has at most MAX_TERM_LENGTH bytes, content at most
\* MAX_CONTENT_LENGTH bytes, and at some offset the lowercased content
\* equals the lowercased term, with no ASCII-alphanumeric byte right before
\* or right after; a longer operand gives false.
C12_TermMatches ==
    eret.op = "term_matches" =>
        LET term == eret.term
            content == eret.content
            n == Len(term)
        IN  eret.res <=>
                /\ n > 0
                /\ Len(content) > 0
                /\ n <= MAX_TERM_LENGTH
                /\ Len(content) <= MAX_CONTENT_LENGTH
                /\ \E i \in 1..(Len(content) - n + 1) :
                    /\ Lowered(SubSeq(content, i, i + n - 1)) = Lowered(term)
                    /\ (i = 1 \/ ~is_ascii_alphanumeric(content[i - 1]))
                    /\ (i + n - 1 = Len(content) \/ ~is_ascii_alphanumeric(content[i + n]))

\* C12 witness: a term of MAX_TERM_LENGTH + 1 bytes that equals the content
\* is not found in it.
C12_Witness ==
    /\ eret.op = "term_matches"
    /\ Len(eret.term) = MAX_TERM_LENGTH + 1
    /\ eret.content = eret.term
    /\ ~eret.res

\* C13: for a query that passes validation and has no term, search completes
\* and returns an empty list.
C13_NoTermsEmptyResults ==
    (eret.op = "search" /\ validate_query(eret.query) = "none"
            /\ split_whitespace(eret.query) = <<>>) =>
        /\ eret.res.outcome = "ok"
        /\ eret.res.results = <<>>

\* C14 (as claimed): validate_query, and so search, rejects every query that
\* is empty, longer than MAX_TERM_LENGTH bytes, has a NUL or has a char that
\* is not ASCII, and accepts every other query.
C14_RejectsNonAscii ==
    eret.op = "validate_query" =>
        LET query == eret.query
            bad   == \/ query = <<>>
                     \/ str_len(query) > MAX_TERM_LENGTH
                     \/ \E i \in 1..Len(query) : query[i] = 0 \/ query[i] >= 128
        IN  /\ bad <=> eret.err # "none"
            /\ bad => eret.searched.outcome = "err"

\* C14 (amended): as claimed, but a char that is not ASCII is refused only
\* when it is not whitespace: U+00A0 or U+2003 pass.
C14_RejectsNonAsciiNonWhitespace ==
    eret.op = "validate_query" =>
        LET query == eret.query
            bad   == \/ query = <<>>
                     \/ str_len(query) > MAX_TERM_LENGTH
                     \/ \E i \in 1..Len(query) :
                            \/ query[i] = 0
                            \/ query[i] >= 128 /\ ~is_whitespace(query[i])
        IN  /\ bad <=> eret.err # "none"
            /\ bad => eret.searched.outcome = "err" /\ eret.searched.err = eret.err

\* C14 witness: a query with whitespace that is not ASCII between two terms
\* is accepted, and searched.
C14_Witness ==
    /\ eret.op = "validate_query"
    /\ \E i \in 1..Len(eret.query) : eret.query[i] >= 128
    /\ eret.err = "none"
    /\ eret.searched.outcome = "ok"

(***************************************************************************)
(* Claims about the order and the end of the crawl.                        *)
(***************************************************************************)
\* The directories discovered so far that no process_next call has visited;
\* a directory's id is its rank in the order of discovery.
Unvisited == (1..dir_count) \ visited

Youngest(ids) == CHOOSE x \in ids : \A y \in ids : y <= x

\* C18: the pending directories are stacked in the order of their discovery,
\* the youngest on top and none deeper than the ones above it, and every
\* process_next call that finds a pending directory visits the youngest
\* directory not visited yet.
C18_LifoOrder ==
    /\ [](\A i \in 1..(Len(queue) - 1) :
            /\ queue[i].id < queue[i + 1].id
            /\ queue[i].depth <= queue[i + 1].depth)
    /\ [][queue # <<>> =>
            /\ ret'.dir.id = Youngest(Unvisited)
            /\ visited' = visited \cup {ret'.dir.id}]_vars

\* A directory at depth 2 was visited while an older directory of depth 1
\* was pending.
C18_Witness ==
    /\ ret.kind = "Some"
    /\ ret.dir.depth = 2
    /\ \E i \in 1..Len(queue) : queue[i].depth = 1 /\ queue[i].id < ret.dir.id

\* No process_next call has returned an error so far.
NoError == ~aborted /\ ret.kind # "Err"

\* The root's listing was empty: the first call returned a batch, met no
\* file and discovered no directory.
EmptyRootVisited ==
    /\ ret.kind = "Some"
    /\ visited = {1}
    /\ ret.nfiles = 0
    /\ dir_count = 1

\* C19: every batch is that of a directory not visited before; None is
\* returned only when nothing is pending, and when no call failed every
\* directory discovered has then been visited, dir_count of them; the calls
\* eventually return None.  On an empty root the first call returns an
\* empty batch, the second None, and progress() is (0, MAX_FILES, 1).
C19_CrawlEnds ==
    /\ [][ret'.kind = "Some" => ret'.dir.id \notin visited]_vars
    /\ [](ret.kind = "None" => queue = <<>>)
    /\ []((ret.kind = "None" /\ NoError)
            => visited = 1..dir_count /\ Cardinality(visited) = dir_count)
    /\ <>(ret.kind = "None")
    /\ [](EmptyRootVisited => ret.files = <<>> /\ progress = <<0, MAX_FILES, 1>>)
    /\ [][EmptyRootVisited => ret'.kind = "None" /\ progress' = <<0, MAX_FILES, 1>>]_vars

\* A crawl of three directories or more, with files, ended without an error.
C19_Witness ==
    /\ ret.kind = "None"
    /\ NoError
    /\ Cardinality(visited) >= 3
    /\ file_count > 0

\* C20: every pending directory has a depth below MAX_DEPTH, the root 0 and
\* a directory pushed by a call one more than the directory visited, and
\* the stack holds MAX_DEPTH entries at most.
C20_DepthBelowMax ==
    /\ Len(queue) <= MAX_DEPTH
    /\ \A i \in 1..Len(queue) :
        /\ queue[i].depth < MAX_DEPTH
        /\ queue[i].id = 1 => queue[i].depth = 0
        /\ (ret.kind \in {"Some", "Err"} /\ queue[i].id > before[3])
               => queue[i].depth = ret.dir.depth + 1

\* The stack is full and holds a directory at the deepest level allowed.
C20_Witness ==
    /\ Len(queue) = MAX_DEPTH
    /\ \E i \in 1..Len(queue) : queue[i].depth = MAX_DEPTH - 1

(***************************************************************************)
(* Claims about the text detector.                                         *)
(***************************************************************************)
\* What the last validate call returns for its content on a new detector.
OnNewDetector ==
    IF tret.revision = "text.rs"
        THEN validate(TextDetector_new, tret.content, tret.overflow_checks).res
        ELSE snap_find_validate(TextDetector_new, tret.content).res

\* C15: validate is pure: the verdict of every call is the verdict the same
\* content gets from a new detector, whatever the detector validated before.
C15_ValidatePure ==
    tret.op = "validate" => tret.res = OnNewDetector

\* C16: the confidence validate returns is within 0..100.
C16_ConfidenceRange ==
    (tret.op = "validate" /\ tret.res.outcome = "ok")
        => tret.res.confidence \in 0..100

\* The content is at least four bytes and starts with the zip, ELF or PNG
\* magic number.
HasMagicHeader(content) ==
    /\ Len(content) >= 4
    /\ \/ <<content[1], content[2], content[3], content[4]>> = <<80, 75, 3, 4>>
       \/ <<content[1], content[2], content[3], content[4]>> = <<127, 69, 76, 70>>
       \/ <<content[1], content[2], content[3], content[4]>> = <<137, 80, 78, 71>>

\* C17: a content that starts with a binary magic number gets confidence 0
\* and the category Unknown, and is not valid text.
C17_MagicHeaderIsBinary ==
    (tret.op = "validate" /\ HasMagicHeader(tret.content))
        => /\ tret.res.outcome = "ok"
           /\ tret.res.confidence = 0
           /\ tret.res.mime_type = "Unknown"
           /\ ~is_valid_text(tret.res)

\* An ELF header that is otherwise text was validated, by a detector whose
\* buffer held other bytes before.
C17_Witness ==
    /\ tret.op = "validate"
    /\ tret.content = <<127, 69, 76, 70, 1>>
    /\ tret.res = binary
    /\ detector.sample_buf[6] # 0

(***************************************************************************)
(* Claims about the order of the results.                                  *)
(***************************************************************************)
\* Document i with score s comes before document j with score t in the order
\* (score descending, insertion index ascending).
RanksBefore(s, i, t, j) == score_lt(t, s) \/ (s = t /\ i < j)

\* C21: the results of a search are in the total order (score descending,
\* insertion index ascending), and every document with a positive score
\* that is left out comes after all of them in that order.
C21_TotalOrder ==
    SearchedOk =>
        LET results == eret.res.results
            scores  == eret.res.doc_scores
        IN  /\ \A k \in 1..(Len(results) - 1) :
                RanksBefore(results[k].score, results[k].idx,
                            results[k + 1].score, results[k + 1].idx)
            /\ \A k \in 1..Len(results) : results[k].score = scores[results[k].idx]
            /\ \A i \in 1..Len(scores) :
                (/\ score_lt(score_zero, scores[i])
                 /\ \A k \in 1..Len(results) : results[k].idx # i)
                    => \A k \in 1..Len(results) :
                           RanksBefore(results[k].score, results[k].idx, scores[i], i)

\* Three documents got the same positive score; the two added first were
\* returned, in the order they were added.
C21_Witness ==
    /\ SearchedOk
    /\ Len(eret.res.doc_scores) = 3
    /\ \A i \in 1..3 : eret.res.doc_scores[i] = eret.res.doc_scores[1]
    /\ score_lt(score_zero, eret.res.doc_scores[1])
    /\ Len(eret.res.results) = 2
    /\ eret.res.results[1].idx = 1
    /\ eret.res.results[2].idx = 2

(***************************************************************************)
(* Claims about saving twice and about a save that fails.                  *)
(***************************************************************************)
\* The engine loaded from the untouched file of a save that succeeded was
\* saved to a second file.
Resaved ==
    /\ eret.op = "save_loaded"
    /\ eret.after = "none"
    /\ eret.tamper.kind = "none"

\* C22: saving an engine, loading the file and saving the loaded engine
\* writes a second file equal to the first, byte for byte.
C22_SaveIdempotent ==
    Resaved => /\ eret.err = "none"
               /\ eret.bytes = disk.bytes

\* Two documents or more went through save, load and save, one of them with
\* a path that is not UTF-8 and came back changed.
C22_Witness ==
    /\ Resaved
    /\ Len(documents) >= 2
    /\ \E i \in 1..Len(documents) : eret.loaded[i].path # documents[i].path
    /\ eret.bytes = disk.bytes

\* Some stored document has a path of more than MAX_PATH_BYTES bytes.
HasLongPath == \E i \in 1..Len(documents) : Len(documents[i].path) > MAX_PATH_BYTES

\* C23: save returns an error when a stored path is longer than
\* MAX_PATH_BYTES, and load does not accept the file such a save leaves.
C23_LongPathFailsSave ==
    /\ (eret.op = "save" /\ HasLongPath) => eret.err = "Path too long"
    /\ (eret.op = "load" /\ eret.after = "Path too long" /\ eret.tamper.kind = "none")
           => /\ disk.exists
              /\ ~eret.res.ok
              /\ eret.res.documents = <<>>

\* A save wrote one record, failed at the second, whose path is too long,
\* and the file it left was loaded.
C23_Witness ==
    /\ eret.op = "load"
    /\ eret.after = "Path too long"
    /\ eret.tamper.kind = "none"
    /\ Len(documents) >= 2
    /\ Len(documents[1].path) <= MAX_PATH_BYTES
    /\ Len(documents[2].path) > MAX_PATH_BYTES
    /\ Len(disk.bytes) > 9
    /\ ~eret.res.ok

(***************************************************************************)
(* Claims about queries of many terms.                                     *)
(***************************************************************************)
\* The query of the last search passes validate_query and has more than
\* MAX_QUERY_TERMS terms.
ExcessTermsSearched ==
    /\ eret.op = "search"
    /\ validate_query(eret.query) = "none"
    /\ Len(split_whitespace(eret.query)) > MAX_QUERY_TERMS

\* C24: a query of more than MAX_QUERY_TERMS terms is not an error: search
\* returns results, with a score computed for every document.
C24_ExcessTermsDropped ==
    ExcessTermsSearched =>
        /\ eret.res.outcome = "ok"
        /\ Len(eret.res.doc_scores) = Len(documents)

(***************************************************************************)
(* Claims about the category and the deductions of the text detector.      *)
(***************************************************************************)
\* The last call returned a verdict that makes the content valid text.
AcceptedAsText ==
    /\ tret.op = "validate"
    /\ tret.res.outcome = "ok"
    /\ is_valid_text(tret.res)

\* The content begins with "#!" or with "<?".
HasSourcePrefix(content) ==
    /\ Len(content) >= 2
    /\ <<content[1], content[2]>> \in { <<35, 33>>, <<60, 63>> }

\* C25: a content accepted as text that begins with "#!" or "<?" gets the
\* category Source.
C25_ShebangIsSource ==
    (AcceptedAsText /\ HasSourcePrefix(tret.content)) => tret.res.mime_type = "Source"

\* The bytes validate samples of the content of the last call.
Sampled == take(tret.content, TEXT_SAMPLE_SIZE)

\* The last call went through determine_result and past its binary test.
NotBinary ==
    /\ tret.op = "validate"
    /\ tret.res.outcome = "ok"
    /\ tret.res # binary

\* C26: a sample that is not classified as binary and is not valid UTF-8
\* gets a confidence of at most 90.
C26_Utf8Deduction ==
    (NotBinary /\ ~is_utf8(Sampled)) => tret.res.confidence <= 90

(***************************************************************************)
(* Claims about the orchestrator.                                          *)
(***************************************************************************)
\* The last file the orchestrator handled was added to the engine.
FileAdded ==
    /\ eret.op \in {"index_file", "rebuild_file"}
    /\ documents # eret.was

\* The verdict of the file: the one index_directory got from its detector,
\* and for search_files, which asks for none, the one of a new detector.
FileVerdict ==
    IF eret.op = "index_file" THEN tret.res
    ELSE validate(TextDetector_new, eret.content, FALSE).res

\* C27: every file the orchestrator adds to an engine has a verdict with a
\* confidence of 50 or more.
C27_OnlyValidTextIndexed ==
    FileAdded => FileVerdict.confidence >= 50

(***************************************************************************)
(* Claims about the allocator.                                             *)
(***************************************************************************)
\* No thread is inside alloc or dealloc: every call has returned.
Quiescent == \A t \in Threads : threads[t].pc \in {"idle", "held", "panic"}

\* C28: whatever the interleaving, peak never decreases, and once every call
\* has returned peak is the largest value the allocated total has had.
C28_PeakIsHighWater ==
    /\ [][allocator'.peak >= allocator.peak]_vars
    /\ [](Quiescent => allocator.peak = high)

\* Every thread held two bytes at once during the initialization phase, and
\* all of it was given back.
C28_Witness ==
    /\ Quiescent
    /\ allocator.initializing
    /\ allocator.allocated = 0
    /\ allocator.peak = 2 * NumThreads
    /\ \A t \in Threads : threads[t].allocs = 1

(***************************************************************************)
(* Claims about searching a store that holds a long path.                  *)
(***************************************************************************)
\* The query of the last search passes validate_query and has a term.
AcceptedQuerySearched ==
    /\ eret.op = "search"
    /\ validate_query(eret.query) = "none"
    /\ Len(split_whitespace(eret.query)) >= 1

\* C29: whatever paths add_document has stored, one of more than
\* MAX_PATH_BYTES bytes included, a search with an accepted query of at least
\* one term returns results or an error, and does not abort on the assertion
\* about the length of a stored path.
C29_LongPathSearchable ==
    AcceptedQuerySearched =>
        ~(eret.res.outcome = "panic" /\ eret.res.err = "Path too long")

(***************************************************************************)
(* Claims about the 8-bit arithmetic of the text detector.                 *)
(***************************************************************************)
\* The last call is validate of text.rs and went past the early returns of
\* validate, analyze_content and determine_result, to the three penalties.
PenaltiesComputed ==
    /\ tret.op = "validate"
    /\ tret.revision = "text.rs"
    /\ check_basic_validity(tret.content)
    /\ analyze_content(detector, tret.content).ok
    /\ ~is_binary_header(detector)
    /\ detector.stats.null_bytes <= 10

\* C30: in validate of text.rs each of the three penalty products, of a
\* count narrowed to u8 and 10, 5 or 20, is at most 255, so that the u8
\* arithmetic of the confidence does not overflow.
C30_PenaltiesFitU8 ==
    PenaltiesComputed =>
        /\ u8_try_from_or(detector.stats.null_bytes, 255) * 10 <= 255
        /\ u8_try_from_or(detector.stats.control_chars, 255) * 5 <= 255
        /\ u8_try_from_or(detector.stats.utf8_errors, 255) * 20 <= 255

====
